---- MODULE Spec2Model ----
(***************************************************************************)
(* FlightPortal: the polling / caching / display-selection core.           *)
(*   src/src/config.py         intervals and limits                        *)
(*   src/src/lga_client.py     advisory (ATIS) and weather (METAR) clients *)
(*   src/src/flight_logic.py   FlightLogic: caches, flight finder, intent  *)
(*   src/src/main.py           FlightPortalApp: poll loop and handlers     *)
(*                                                                         *)
(* Python values are modelled as follows.  A value that may be None is a   *)
(* sequence of length at most one: None is << >> and a present value x is  *)
(* <<x>>.  A text the code inspects character by character (advisory,      *)
(* runway designator) is a sequence of one-character strings; a text the   *)
(* core only passes along (raw weather report, callsign) is a string.  A   *)
(* dict is a record.  Time is in whole seconds.                            *)
(***************************************************************************)
EXTENDS Integers, Sequences, FiniteSets, TLC

\* ---------------------------------------------------------------- config.py
FLIGHT_POLL_INTERVAL == 30
RUNWAY_CHECK_INTERVAL == 900
WEATHER_REFRESH_INTERVAL == 300
SLEEP_WHEN_INACTIVE == 60
MAX_APPROACH_ALTITUDE == 5000
WATCHDOG_TIMEOUT == 16
CONNECTION_TIMEOUT == 10

\* ------------------------------------------------------------ Python values
None == << >>
Some(x) == <<x>>
\* Python truthiness of an optional text: None and "" are both false.
TruthyText(o) == o # None /\ o[1] # << >>

\* ------------------------------------------------------------------- texts
LowerAlphabet ==
  <<"a","b","c","d","e","f","g","h","i","j","k","l","m",
    "n","o","p","q","r","s","t","u","v","w","x","y","z">>
UpperAlphabet ==
  <<"A","B","C","D","E","F","G","H","I","J","K","L","M",
    "N","O","P","Q","R","S","T","U","V","W","X","Y","Z">>
UpperChar(c) ==
  IF \E i \in 1..26 : LowerAlphabet[i] = c
  THEN UpperAlphabet[CHOOSE i \in 1..26 : LowerAlphabet[i] = c]
  ELSE c
\* str.upper()
Upper(t) == [i \in 1..Len(t) |-> UpperChar(t[i])]

\* the characters of \d and of \s
DigitChars == {"0","1","2","3","4","5","6","7","8","9"}
SpaceChars == {" ", "\t", "\n"}
IsDigit(c) == c \in DigitChars
IsSpace(c) == c \in SpaceChars
IsLCR(c) == c \in {"L", "C", "R"}

\* --------------------------------------------------- regular-expression parts
\* The one element of a one-element set.  A value that is used several times
\* is bound once as  Only({ e(x) : x \in {v} }).
Only(S) == CHOOSE x \in S : TRUE

\* Each matcher takes the text t and a set S of positions, and gives the
\* positions just after a match that starts at a position of S (none when
\* nothing matches).
MatchLit(t, S, w) ==
  { i + Len(w) :
      i \in { k \in S : /\ k >= 1
                        /\ k + Len(w) - 1 <= Len(t)
                        /\ SubSeq(t, k, k + Len(w) - 1) = w } }
\* the end of the longest run of characters of class that starts at i
RunEnd(t, i, class) ==
  CHOOSE j \in (i+1)..(Len(t)+1) :
    /\ \A k \in i..(j-1) : t[k] \in class
    /\ (j <= Len(t) => t[j] \notin class)
\* \s+  (greedy)
MatchSpaces(t, S) ==
  { RunEnd(t, i, SpaceChars) :
      i \in { k \in S : k >= 1 /\ k <= Len(t) /\ IsSpace(t[k]) } }
\* RW?Y
MatchRY(t, S) ==
  MatchLit(t, UNION { {r} \cup MatchLit(t, {r}, <<"W">>) :
                      r \in MatchLit(t, S, <<"R">>) },
           <<"Y">>)
\* \d+  (greedy)
MatchDigits(t, i) == RunEnd(t, i, DigitChars)
\* [LCR]? after position d
OptLCR(t, d) == IF d <= Len(t) /\ IsLCR(t[d]) THEN d + 1 ELSE d
\* (\d+[LCR]?) : the spans <<from, to>> of the group, to exclusive
MatchRunway(t, S) ==
  { <<i, OptLCR(t, MatchDigits(t, i))>> :
      i \in { k \in S : k >= 1 /\ k <= Len(t) /\ IsDigit(t[k]) } }
\* \s+APCH\s+IN\s+USE
MatchApchInUse(t, S) ==
  MatchLit(t,
    MatchSpaces(t,
      MatchLit(t,
        MatchSpaces(t,
          MatchLit(t, MatchSpaces(t, S), <<"A","P","C","H">>)),
        <<"I","N">>)),
    <<"U","S","E">>)
\* <word>\s+ at position i, <word> possibly absent
MatchWord(t, i, word) ==
  IF word = << >> THEN {i} ELSE MatchSpaces(t, MatchLit(t, {i}, word))
\* <word>\s+RW?Y\s+(\d+[LCR]?) at position i; with apch, followed by
\* \s+APCH\s+IN\s+USE.  Gives group 1 of the match, if there is one.
MatchPatternAt(t, i, word, apch) ==
  { SubSeq(t, g[1], g[2] - 1) :
      g \in { h \in MatchRunway(t, MatchSpaces(t, MatchRY(t, MatchWord(t, i, word)))) :
                apch => MatchApchInUse(t, {h[2]}) # {} } }
\* the match at the leftmost position among hits, a set of <<position, group>>
Leftmost(hits) ==
  IF hits = {} THEN None
  ELSE Some((CHOOSE h \in hits : \A g \in hits : h[1] <= g[1])[2])
\* re.search: the leftmost position at which the pattern matches.
Search(t, word, apch) ==
  Leftmost(UNION { { <<i, m>> : m \in MatchPatternAt(t, i, word, apch) } :
                   i \in 1..Len(t) })
\* (?:a|b): the first alternative that lets the whole pattern match
FirstAlternative(a, b) == IF a # {} THEN a ELSE b
\* re.search with an alternation of two leading words, (?:w1|w2).
Search2(t, w1, w2) ==
  Leftmost(UNION { { <<i, m>> :
                     m \in FirstAlternative(MatchPatternAt(t, i, w1, FALSE),
                                            MatchPatternAt(t, i, w2, FALSE)) } :
                   i \in 1..Len(t) })

\* ------------------------------------------------------------ lga_client.py
\* The first match among the matches of the patterns tried in order.
FirstMatch(ms) ==
  IF \A k \in 1..Len(ms) : ms[k] = None THEN None
  ELSE ms[CHOOSE k \in 1..Len(ms) : ms[k] # None /\ \A j \in 1..(k-1) : ms[j] = None]

\* Variant: the ILS pattern is tried before the LND and LANDING patterns.
ParseLandingRunwayIlsFirst(atis_text) ==
  IF atis_text = << >> THEN None
  ELSE
    Only({ FirstMatch(<< Search(text, <<"I","L","S">>, TRUE),
                         Search(text, <<"L","N","D">>, FALSE),
                         Search(text, <<"L","A","N","D","I","N","G">>, FALSE),
                         Search(text, << >>, TRUE) >>) :
           text \in {Upper(atis_text)} })

parse_landing_runway(atis_text) ==
  IF atis_text = << >> THEN None
  ELSE
    Only({ FirstMatch(<< Search(text, <<"L","N","D">>, FALSE),
                         Search(text, <<"L","A","N","D","I","N","G">>, FALSE),
                         Search(text, <<"I","L","S">>, TRUE),
                         Search(text, << >>, TRUE) >>) :
           text \in {Upper(atis_text)} })

parse_departure_runway(atis_text) ==
  IF atis_text = << >> THEN None
  ELSE Only({ Search2(text, <<"D","E","P","A","R","T">>, <<"D","E","P">>) :
              text \in {Upper(atis_text)} })

\* An upstream HTTP exchange is a record [kind, dur, ...]:
\*   kind = "error"      requests.get raised (network error, timeout)
\*          "status"     a response whose status_code is not 200
\*          "malformed"  status 200, but response.json() or the access to the
\*                       body raised (not JSON, unexpected shape)
\*          "empty"      status 200 and an empty JSON body ([] or {})
\*          "ok"         status 200 and a body of the expected shape
\*   dur  = the seconds the request blocked the caller.
\* The fetch event records the exchange the request met.
FetchEvent(src, resp) ==
  [ev |-> "fetch", src |-> src, kind |-> resp.kind, resp |-> resp]

\* get_active_runways never raises: every failure is caught inside and
\* answered with {"arrivals": None, "departures": None}.
get_active_runways(resp) ==
  IF resp.kind = "ok"
  THEN Only({ [raised |-> FALSE,
                arrivals |-> parse_landing_runway(atis_text),
                departures |-> parse_departure_runway(atis_text)] :
              atis_text \in {Upper(resp.datis)} })
  ELSE [raised |-> FALSE, arrivals |-> None, departures |-> None]

\* ------------------------------------------------------------ the upstreams
\* Advisory texts the advisory source may serve ("datis").
AtisTexts ==
  <<
    \* LND RY 04 DEP RY 13
    <<"L","N","D"," ","R","Y"," ","0","4"," ","D","E","P"," ","R","Y"," ","1","3">>,
    \* lnd rwy 4r depart rwy 31
    <<"l","n","d"," ","r","w","y"," ","4","r"," ","d","e","p","a","r","t"," ","r","w","y"," ","3","1">>,
    \* LND RY 22 DEP RY 13
    <<"L","N","D"," ","R","Y"," ","2","2"," ","D","E","P"," ","R","Y"," ","1","3">>,
    \* LND RY 40
    <<"L","N","D"," ","R","Y"," ","4","0">>,
    \* VFR APCH IN USE
    <<"V","F","R"," ","A","P","C","H"," ","I","N"," ","U","S","E">>,
    \* ILS RY 22 APCH IN USE LND RY 04
    <<"I","L","S"," ","R","Y"," ","2","2"," ","A","P","C","H"," ","I","N"," ",
      "U","S","E"," ","L","N","D"," ","R","Y"," ","0","4">>,
    \* ILS RWY 4 APCH IN USE LANDING RY 22R
    <<"I","L","S"," ","R","W","Y"," ","4"," ","A","P","C","H"," ","I","N"," ",
      "U","S","E"," ","L","A","N","D","I","N","G"," ","R","Y"," ","2","2","R">>,
    \* RY 31C APCH IN USE ILS RY 13 APCH IN USE
    <<"R","Y"," ","3","1","C"," ","A","P","C","H"," ","I","N"," ","U","S","E"," ",
      "I","L","S"," ","R","Y"," ","1","3"," ","A","P","C","H"," ","I","N"," ",
      "U","S","E">>,
    \* VISUAL RWY 4L  APCH IN USE
    <<"V","I","S","U","A","L"," ","R","W","Y"," ","4","L"," "," ","A","P","C","H",
      " ","I","N"," ","U","S","E">>,
    \* DEP RY 4
    <<"D","E","P"," ","R","Y"," ","4">>,
    \* LANDING RUNWAY 04
    <<"L","A","N","D","I","N","G"," ","R","U","N","W","A","Y"," ","0","4">>
  >>

\* The advisory exchanges: each text, and the failures (a timeout blocks the
\* caller for CONNECTION_TIMEOUT).
AtisResponses ==
  [i \in 1..Len(AtisTexts) |-> [kind |-> "ok", dur |-> 0, datis |-> AtisTexts[i]]]
  \o << [kind |-> "error", dur |-> CONNECTION_TIMEOUT, datis |-> << >>],
        [kind |-> "status", dur |-> 0, datis |-> << >>],
        [kind |-> "malformed", dur |-> 0, datis |-> << >>] >>

\* The weather exchanges.
MetarResponses ==
  << [kind |-> "ok", dur |-> 0, rawOb |-> "KLGA 160151Z 18006KT 10SM FEW050"],
     [kind |-> "ok", dur |-> 0, rawOb |-> "KLGA 160251Z 27010KT 3SM BR"],
     [kind |-> "error", dur |-> CONNECTION_TIMEOUT, rawOb |-> ""],
     [kind |-> "status", dur |-> 0, rawOb |-> ""] >>

\* A positional flight array of n fields: altitude at 4, speed at 5, type at
\* 8, origin at 11, destination at 12, flight number at 13, callsign at 16.
FlightInfo(n, altitude, aircraft_type, origin, number, callsign) ==
  [i \in 1..n |->
     CASE i = 5  -> altitude
       [] i = 6  -> 140
       [] i = 9  -> aircraft_type
       [] i = 12 -> origin
       [] i = 13 -> "LGA"
       [] i = 14 -> number
       [] i = 17 -> callsign
       [] OTHER  -> 0]
Meta(key) == [key |-> key, is_list |-> FALSE, val |-> << >>]
Flight(key, val) == [key |-> key, is_list |-> TRUE, val |-> val]

\* The flight-feed exchanges: bodies in iteration order, and the failures.
FlightResponses ==
  << [kind |-> "ok", dur |-> 0,
      data |-> <<Meta("full_count"), Meta("version"),
                 Flight("3a1f", FlightInfo(19, 3500, "B738", "BOS", "DL1", "DAL1"))>>],
     [kind |-> "ok", dur |-> 0,
      data |-> <<Meta("full_count"),
                 Flight("77c2", FlightInfo(19, 12000, "A320", "ORD", "UA9", "UAL9")),
                 Flight("5b20", FlightInfo(14, 2000, "E75L", "DCA", "", "")),
                 Flight("3a1f", FlightInfo(19, 3500, "B738", "BOS", "DL1", "DAL1")),
                 Meta("version")>>],
     [kind |-> "ok", dur |-> 0,
      data |-> <<Meta("full_count"), Meta("version"),
                 Flight("77c2", FlightInfo(19, 12000, "A320", "ORD", "UA9", "UAL9")),
                 Flight("9d04", FlightInfo(12, 1500, "C172", "HPN", "", ""))>>],
     [kind |-> "error", dur |-> CONNECTION_TIMEOUT, data |-> << >>],
     [kind |-> "status", dur |-> 0, data |-> << >>],
     \* a 12-field and a 13-field array ahead of a complete one
     [kind |-> "ok", dur |-> 0,
      data |-> <<Meta("version"),
                 Flight("9d04", FlightInfo(12, 1500, "C172", "HPN", "", "")),
                 Flight("e13f", FlightInfo(13, 1800, "PC12", "ACK", "", "")),
                 Flight("3a1f", FlightInfo(19, 3500, "B738", "BOS", "DL1", "DAL1"))>>],
     \* a scalar under an unreserved key, an array at 5000 ft and a 17-field
     \* array just below
     [kind |-> "ok", dur |-> 0,
      data |-> <<Meta("stats"),
                 Flight("b500", FlightInfo(19, 5000, "A320", "ORD", "UA9", "UAL9")),
                 Flight("a17b", FlightInfo(17, 4999, "A321", "MCO", "B65", "JBU5")),
                 Meta("full_count")>>],
     \* a 13-field array alone
     [kind |-> "ok", dur |-> 0,
      data |-> <<Meta("full_count"), Meta("version"),
                 Flight("e13f", FlightInfo(13, 1800, "PC12", "ACK", "", ""))>>] >>

\* ------------------------------------------------- lga_client.py, continued
\* get_active_runways() on each advisory exchange of AtisResponses, worked
\* out once.
ActiveRunways ==
  { <<AtisResponses[a], get_active_runways(AtisResponses[a])>> :
      a \in 1..Len(AtisResponses) }
\* runways = get_active_runways() when the request meets the exchange resp
FetchActiveRunways(resp) == (CHOOSE p \in ActiveRunways : p[1] = resp)[2]

\* get_current_metar never raises: every failure is answered with None.
get_current_metar(resp) ==
  IF resp.kind = "ok"
  THEN [raised |-> FALSE, val |-> Some(resp.rawOb)]
  ELSE [raised |-> FALSE, val |-> None]

\* ---------------------------------------------------------- flight_logic.py
\* FlightLogic.__init__
FlightLogicInit ==
  [last_runway_check |-> 0,
   last_weather_refresh |-> 0,
   cached_runway_status |-> None,
   cached_weather_data |-> None]

CallEvent(fn, force, t) == [ev |-> "call", fn |-> fn, force |-> force, t |-> t]
ReturnEvent(fn, val) == [ev |-> "return", fn |-> fn, val |-> val]

\* re.sub(r'[LCR]$', '', arrivals)
StripLCR(s) ==
  IF Len(s) > 0 /\ IsLCR(s[Len(s)]) THEN SubSeq(s, 1, Len(s) - 1) ELSE s

\* Variant: the designator compared without removing its suffix.
Runway04ActiveNoStrip(arrivals) ==
  IF TruthyText(arrivals)
  THEN arrivals[1] \in { <<"0","4">>, <<"4">> }
  ELSE FALSE

\* flight_logic.py lines 60-66
Runway04Active(arrivals) ==
  IF TruthyText(arrivals)
  THEN StripLCR(arrivals[1]) \in { <<"0","4">>, <<"4">> }
  ELSE FALSE

\* Variant: the cache goes stale one connection timeout early.
RunwayCacheFreshShort(L, current_time, force_refresh) ==
  /\ ~force_refresh
  /\ L.cached_runway_status # None
  /\ (current_time - L.last_runway_check) <
       RUNWAY_CHECK_INTERVAL - CONNECTION_TIMEOUT

\* Variant: force_refresh is not consulted.
RunwayCacheFreshForced(L, current_time, force_refresh) ==
  /\ L.cached_runway_status # None
  /\ (current_time - L.last_runway_check) < RUNWAY_CHECK_INTERVAL

\* Variant: the boundary age still counts as fresh.
RunwayCacheFreshInclusive(L, current_time, force_refresh) ==
  /\ ~force_refresh
  /\ L.cached_runway_status # None
  /\ (current_time - L.last_runway_check) <= RUNWAY_CHECK_INTERVAL

\* Variant: a cached status is served whatever its age and whatever
\* force_refresh says.
RunwayCacheFreshForever(L, current_time, force_refresh) ==
  L.cached_runway_status # None

\* The cache test of check_runway_status (lines 49-51).
RunwayCacheFresh(L, current_time, force_refresh) ==
  /\ ~force_refresh
  /\ L.cached_runway_status # None
  /\ (current_time - L.last_runway_check) < RUNWAY_CHECK_INTERVAL

\* Variant: the departures runway also makes runway 04 active.
RunwayRefreshEitherRunway(L, current_time, runways) ==
  LET status == [runway_04_active |-> Runway04Active(runways.arrivals) \/
                                      Runway04Active(runways.departures),
                 arrivals |-> runways.arrivals,
                 departures |-> runways.departures,
                 last_updated |-> current_time]
  IN [L |-> [L EXCEPT !.cached_runway_status = Some(status),
                      !.last_runway_check = current_time],
      ret |-> status, old |-> L.cached_runway_status]

\* Variant: the refresh stores the new fields into the dict already cached
\* instead of binding the cache to a new dict.
RunwayRefreshInPlace(L, current_time, runways) ==
  LET status == [runway_04_active |-> Runway04Active(runways.arrivals),
                 arrivals |-> runways.arrivals,
                 departures |-> runways.departures,
                 last_updated |-> current_time]
  IN [L |-> [L EXCEPT !.cached_runway_status = Some(status),
                      !.last_runway_check = current_time],
      ret |-> status,
      old |-> IF L.cached_runway_status # None THEN Some(status) ELSE None]

\* Variant: the refresh installs the new status without stamping
\* last_runway_check, so the cache never ages from the refresh.
RunwayRefreshUnstamped(L, current_time, runways) ==
  LET status == [runway_04_active |-> Runway04Active(runways.arrivals),
                 arrivals |-> runways.arrivals,
                 departures |-> runways.departures,
                 last_updated |-> current_time]
  IN [L |-> [L EXCEPT !.cached_runway_status = Some(status)],
      ret |-> status, old |-> L.cached_runway_status]

\* The try block of check_runway_status (lines 56-80).  Line 68 binds
\* self.cached_runway_status to a newly built dict: old is the dict that was
\* cached until then (None when there was none), as it reads afterwards.
RunwayRefresh(L, current_time, runways) ==
  LET status == [runway_04_active |-> Runway04Active(runways.arrivals),
                 arrivals |-> runways.arrivals,
                 departures |-> runways.departures,
                 last_updated |-> current_time]
  IN [L |-> [L EXCEPT !.cached_runway_status = Some(status),
                      !.last_runway_check = current_time],
      ret |-> status, old |-> L.cached_runway_status]

\* The except block of check_runway_status (lines 82-94).
RunwayFallback(L, current_time) ==
  [L |-> L, old |-> L.cached_runway_status,
   ret |-> IF L.cached_runway_status # None
           THEN L.cached_runway_status[1]
           ELSE [runway_04_active |-> FALSE, arrivals |-> None,
                 departures |-> None, last_updated |-> current_time]]

\* The return of check_runway_status with the value val; old is the dict that
\* self.cached_runway_status referred to when the call began (None when
\* there was none), as it reads when the call returns.
RunwayReturnEvent(val, old) ==
  [ev |-> "return", fn |-> "check_runway_status", val |-> val, old |-> old]

\* FlightLogic.check_runway_status, called at clock t; resp is the advisory
\* exchange the call meets if it fetches.  Gives the object's new state L,
\* the returned value ret, the clock t at return and the events in order.
check_runway_status(L, t, force_refresh, resp) ==
  LET current_time == t
      enter == CallEvent("check_runway_status", force_refresh, t)
  IN
  IF RunwayCacheFresh(L, current_time, force_refresh)
  THEN [L |-> L, ret |-> L.cached_runway_status[1], t |-> t,
        log |-> <<enter,
                  RunwayReturnEvent(L.cached_runway_status[1],
                                    L.cached_runway_status)>>]
  ELSE
    Only({ Only({ [L |-> r.L, ret |-> r.ret, t |-> t + resp.dur,
                   log |-> <<enter, FetchEvent("atis", resp),
                             RunwayReturnEvent(r.ret, r.old)>>] :
                  r \in { IF runways.raised
                          THEN RunwayFallback(L, current_time)
                          ELSE RunwayRefresh(L, current_time, runways) } }) :
           runways \in {FetchActiveRunways(resp)} })

\* flight_info[k], Python's 0-based index
Field(flight_info, k) == flight_info[k + 1]

\* FlightLogic._parse_flight_data: the parsed record, or None.  A list of
\* exactly 13 fields passes the length test and then raises IndexError at
\* flight_info[13]; the except block answers None.
parse_flight_data(flight_id, flight_info) ==
  IF Len(flight_info) < 13 THEN None
  ELSE IF ~(Len(flight_info) > 16) /\ ~(Len(flight_info) > 13) THEN None
  ELSE
    LET callsign == IF Len(flight_info) > 16 THEN Field(flight_info, 16)
                    ELSE Field(flight_info, 13)
        aircraft_type == IF Len(flight_info) > 8 THEN Field(flight_info, 8)
                         ELSE "Unknown"
        altitude == Field(flight_info, 4)
        speed == Field(flight_info, 5)
        origin == IF Len(flight_info) > 11 THEN Field(flight_info, 11) ELSE "???"
        destination == IF Len(flight_info) > 12 THEN Field(flight_info, 12)
                       ELSE "LGA"
    IN Some([flight_id |-> flight_id,
             callsign |-> IF callsign = "" THEN "Unknown" ELSE callsign,
             aircraft_type |-> aircraft_type,
             altitude |-> altitude,
             speed |-> speed,
             origin |-> origin,
             destination |-> destination,
             route |-> <<origin, "->", destination>>])

\* The for loop of get_runway_04_flights (lines 117-129) from entry i on:
\* data is the feed's entries in iteration order, each [key, is_list, val].
RECURSIVE ScanFlights(_, _)
ScanFlights(data, i) ==
  IF i > Len(data) THEN None
  ELSE
    LET flight_id == data[i].key
        flight_info == data[i].val
        found ==
          IF flight_id \notin {"version", "full_count"} /\ data[i].is_list
          THEN IF Len(flight_info) >= 13
               THEN LET altitude == IF Len(flight_info) > 4
                                    THEN Field(flight_info, 4) ELSE 0
                    IN IF altitude < MAX_APPROACH_ALTITUDE
                       THEN parse_flight_data(flight_id, flight_info)
                       ELSE None
               ELSE None
          ELSE None
    IN Only({ IF hit # None THEN hit
              ELSE Only({ ScanFlights(data, j) : j \in {i + 1} }) :
              hit \in {found} })

\* Variant: the scan ends at the first array that is too short to extract.
GetRunway04FlightsAborting(t, resp) ==
  Only({ [ret |-> ret, t |-> t + resp.dur,
          log |-> <<CallEvent("get_runway_04_flights", FALSE, t),
                    FetchEvent("flights", resp),
                    ReturnEvent("get_runway_04_flights", ret)>>] :
         ret \in { IF resp.kind = "ok"
                   THEN ScanFlights(
                          SubSeq(resp.data, 1,
                                 Cardinality({k \in 1..Len(resp.data) :
                                   \A j \in 1..k : ~(resp.data[j].is_list /\
                                                     Len(resp.data[j].val) <= 13)})),
                          1)
                   ELSE None } })

\* Variant: a failed request leaves the method by an exception, without a
\* return.
GetRunway04FlightsRaising(t, resp) ==
  Only({ [ret |-> ret, t |-> t + resp.dur,
          log |-> <<CallEvent("get_runway_04_flights", FALSE, t),
                    FetchEvent("flights", resp)>> \o
                  (IF resp.kind = "ok"
                   THEN <<ReturnEvent("get_runway_04_flights", ret)>>
                   ELSE << >>)] :
         ret \in { IF resp.kind = "ok" THEN ScanFlights(resp.data, 1)
                   ELSE None } })

\* FlightLogic.get_runway_04_flights, called at clock t.
get_runway_04_flights(t, resp) ==
  Only({ [ret |-> ret, t |-> t + resp.dur,
          log |-> <<CallEvent("get_runway_04_flights", FALSE, t),
                    FetchEvent("flights", resp),
                    ReturnEvent("get_runway_04_flights", ret)>>] :
         ret \in { IF resp.kind = "ok" THEN ScanFlights(resp.data, 1)
                   ELSE None } })

\* Variant: the boundary age still counts as fresh.
WeatherCacheFreshInclusive(L, current_time, force_refresh) ==
  /\ ~force_refresh
  /\ L.cached_weather_data # None
  /\ (current_time - L.last_weather_refresh) <= WEATHER_REFRESH_INTERVAL

\* The cache test of get_weather_display (lines 177-179).
WeatherCacheFresh(L, current_time, force_refresh) ==
  /\ ~force_refresh
  /\ L.cached_weather_data # None
  /\ (current_time - L.last_weather_refresh) < WEATHER_REFRESH_INTERVAL

\* The dict built by get_weather_display (lines 187-193).  The key
\* "runway_status" is absent (None here) until get_display_data adds it.
WeatherData(metar, runway_status, current_time) ==
  [type |-> "weather",
   metar |-> metar,
   arrivals_runway |-> runway_status.arrivals,
   departures_runway |-> runway_status.departures,
   last_updated |-> current_time,
   runway_status |-> None]

\* The dict of the except block of get_weather_display (lines 206-212).
WeatherUnavailable(current_time) ==
  [type |-> "weather",
   metar |-> Some("Weather unavailable"),
   arrivals_runway |-> Some(<<"U","n","k","n","o","w","n">>),
   departures_runway |-> Some(<<"U","n","k","n","o","w","n">>),
   last_updated |-> current_time,
   runway_status |-> None]

\* FlightLogic.get_weather_display, called at clock t; mresp and aresp are the
\* weather and advisory exchanges it meets if it fetches.  cached tells
\* whether the returned dict is the object held in cached_weather_data.
get_weather_display(L, t, force_refresh, mresp, aresp) ==
  LET current_time == t
      enter == CallEvent("get_weather_display", force_refresh, t)
  IN
  IF WeatherCacheFresh(L, current_time, force_refresh)
  THEN [L |-> L, ret |-> L.cached_weather_data[1], cached |-> TRUE, t |-> t,
        log |-> <<enter,
                  ReturnEvent("get_weather_display", L.cached_weather_data[1])>>]
  ELSE
    Only({
      IF metar.raised
      THEN LET ret == IF L.cached_weather_data # None
                      THEN L.cached_weather_data[1]
                      ELSE WeatherUnavailable(current_time)
           IN [L |-> L, ret |-> ret, cached |-> L.cached_weather_data # None,
               t |-> t + mresp.dur,
               log |-> <<enter, FetchEvent("metar", mresp),
                         ReturnEvent("get_weather_display", ret)>>]
      ELSE Only({
             LET ret == WeatherData(metar.val, rs.ret, current_time)
             IN [L |-> [rs.L EXCEPT !.cached_weather_data = Some(ret),
                                    !.last_weather_refresh = current_time],
                 ret |-> ret, cached |-> TRUE, t |-> rs.t,
                 log |-> <<enter, FetchEvent("metar", mresp)>> \o rs.log \o
                         <<ReturnEvent("get_weather_display", ret)>>] :
             rs \in {check_runway_status(L, t + mresp.dur, FALSE, aresp)} }) :
      metar \in {get_current_metar(mresp)} })

\* Variant: no flight found is answered with a weather-typed dict.
NoFlightsAsWeather(runway_status) ==
  [type |-> "weather",
   message |-> "RWY04 Active - No Approach Traffic",
   runway_status |-> runway_status]

\* The dict get_display_data builds when no flight was found (lines 233-237).
NoFlightsData(runway_status) ==
  [type |-> "no_flights",
   message |-> "RWY04 Active - No Approach Traffic",
   runway_status |-> runway_status]

\* Variant: a runway status that names no arrivals runway ends the call with
\* the placeholder dict, and neither the flight finder nor the weather monitor
\* is run.
GetDisplayDataStoppingOnFailure(L, t, aresp, fresp, mresp) ==
  LET enter == CallEvent("get_display_data", FALSE, t) IN
  Only({
    IF rs.ret.arrivals = None
    THEN Only({ [L |-> rs.L, ret |-> ret, t |-> rs.t,
                 log |-> <<enter>> \o rs.log \o
                         <<ReturnEvent("get_display_data", ret)>>] :
                ret \in { [WeatherUnavailable(t) EXCEPT
                             !.runway_status = Some(rs.ret)] } })
    ELSE IF rs.ret.runway_04_active
    THEN Only({ [L |-> rs.L, ret |-> ret, t |-> fl.t,
                 log |-> <<enter>> \o rs.log \o fl.log \o
                         <<ReturnEvent("get_display_data", ret)>>] :
                fl \in {get_runway_04_flights(rs.t, fresp)},
                ret \in { IF get_runway_04_flights(rs.t, fresp).ret # None
                          THEN get_runway_04_flights(rs.t, fresp).ret[1] @@
                               [type |-> "flight", runway_status |-> rs.ret]
                          ELSE NoFlightsData(rs.ret) } })
    ELSE Only({ [L |-> IF wd.cached
                       THEN [wd.L EXCEPT !.cached_weather_data =
                               Some([wd.ret EXCEPT !.runway_status = Some(rs.ret)])]
                       ELSE wd.L,
                 ret |-> [wd.ret EXCEPT !.runway_status = Some(rs.ret)],
                 t |-> wd.t,
                 log |-> <<enter>> \o rs.log \o wd.log \o
                         <<ReturnEvent("get_display_data",
                             [wd.ret EXCEPT !.runway_status = Some(rs.ret)])>>] :
                wd \in {get_weather_display(rs.L, rs.t, FALSE, mresp, aresp)} }) :
    rs \in {check_runway_status(L, t, FALSE, aresp)} })

\* Variant: the flight feed is requested before the runway status is looked
\* at, in every call.
GetDisplayDataFeedAlways(L, t, aresp, fresp, mresp) ==
  LET enter == CallEvent("get_display_data", FALSE, t) IN
  Only({
    IF rs.ret.runway_04_active
    THEN Only({ [L |-> rs.L, ret |-> ret, t |-> fl.t,
                 log |-> <<enter>> \o rs.log \o fl.log \o
                         <<ReturnEvent("get_display_data", ret)>>] :
                ret \in { IF fl.ret # None
                          THEN fl.ret[1] @@
                               [type |-> "flight", runway_status |-> rs.ret]
                          ELSE NoFlightsData(rs.ret) } })
    ELSE Only({ [L |-> IF wd.cached
                       THEN [wd.L EXCEPT !.cached_weather_data = Some(ret)]
                       ELSE wd.L,
                 ret |-> ret, t |-> wd.t,
                 log |-> <<enter>> \o rs.log \o fl.log \o wd.log \o
                         <<ReturnEvent("get_display_data", ret)>>] :
                wd \in {get_weather_display(rs.L, fl.t, FALSE, mresp, aresp)},
                ret \in { [get_weather_display(rs.L, fl.t, FALSE, mresp,
                                               aresp).ret
                            EXCEPT !.runway_status = Some(rs.ret)] } }) :
    rs \in {check_runway_status(L, t, FALSE, aresp)},
    fl \in {get_runway_04_flights(t, fresp)} })

\* FlightLogic.get_display_data, called at clock t.
get_display_data(L, t, aresp, fresp, mresp) ==
  LET enter == CallEvent("get_display_data", FALSE, t) IN
  Only({
    LET runway_status == rs.ret IN
    IF runway_status.runway_04_active
    THEN
      Only({
        LET flight_data == fl.ret
            ret == IF flight_data # None
                   THEN flight_data[1] @@
                        [type |-> "flight", runway_status |-> runway_status]
                   ELSE NoFlightsData(runway_status)
        IN [L |-> rs.L, ret |-> ret, t |-> fl.t,
            log |-> <<enter>> \o rs.log \o fl.log \o
                    <<ReturnEvent("get_display_data", ret)>>] :
        fl \in {get_runway_04_flights(rs.t, fresp)} })
    ELSE
      Only({
        \* weather_data["runway_status"] = runway_status writes into the
        \* returned dict, which is the cached object when wd.cached
        LET ret == [wd.ret EXCEPT !.runway_status = Some(runway_status)]
        IN [L |-> IF wd.cached
                  THEN [wd.L EXCEPT !.cached_weather_data = Some(ret)]
                  ELSE wd.L,
            ret |-> ret, t |-> wd.t,
            log |-> <<enter>> \o rs.log \o wd.log \o
                    <<ReturnEvent("get_display_data", ret)>>] :
        wd \in {get_weather_display(rs.L, rs.t, FALSE, mresp, aresp)} }) :
    rs \in {check_runway_status(L, t, FALSE, aresp)} })

\* FlightLogic.refresh_all_data, called at clock t.
refresh_all_data(L, t, aresp, mresp) ==
  Only({ Only({ [L |-> wd.L, ret |-> None, t |-> wd.t,
                 log |-> <<CallEvent("refresh_all_data", TRUE, t)>> \o
                         rs.log \o wd.log] :
                wd \in {get_weather_display(rs.L, rs.t, TRUE, mresp, aresp)} }) :
         rs \in {check_runway_status(L, t, TRUE, aresp)} })

\* --------------------------------------------------- display_controller.py
\* The platforms the module-level imports tell apart: HARDWARE_TYPE of
\* display_controller.py, and with it hardware_ready after __init__ and
\* main.py's own HARDWARE_AVAILABLE (the microcontroller import, which only
\* CircuitPython on the MatrixPortal has).
Platforms ==
  { [hardware_type |-> "none", hardware_ready |-> FALSE, watchdog |-> FALSE],
    [hardware_type |-> "raspberry_pi", hardware_ready |-> TRUE, watchdog |-> FALSE],
    [hardware_type |-> "matrixportal", hardware_ready |-> TRUE, watchdog |-> TRUE] }

\* show_flight_info, show_weather_info and show_no_flights_message print when
\* the hardware is not ready and draw on the MatrixPortal; on the Raspberry
\* Pi each of them first calls _hex_to_rgb(config.ROW_ONE_COLOUR), whose
\* hex_color.lstrip('#') raises AttributeError on the int colour.
ShowRaises(dc) == dc.hardware_ready /\ dc.hardware_type = "raspberry_pi"

RenderEvent(fn, arg, raised) ==
  [ev |-> "render", fn |-> fn, arg |-> arg, raised |-> raised]

\* ------------------------------------------------------------------ main.py
\* FlightPortalApp.__init__
AppInit ==
  [last_runway_check |-> 0,
   last_weather_refresh |-> 0,
   last_flight_id |-> None,
   current_display_mode |-> None]

\* Each handler gives the app's new state A, the FlightLogic state L, the
\* clock t, the events, and whether an exception left it (raised).

\* Variant: a flight is always taken to be new.
SameFlightNever(A, flight_id) == FALSE

\* Variant: only the display mode is compared, not the flight id.
SameFlightModeOnly(A, flight_id) == A.current_display_mode = Some("flight")

\* The test of _handle_flight_display (line 108).
SameFlightShown(A, flight_id) ==
  Some(flight_id) = A.last_flight_id /\ A.current_display_mode = Some("flight")

\* FlightPortalApp._handle_flight_display
handle_flight_display(A, dc, display_data) ==
  LET flight_id == display_data.flight_id IN
  IF SameFlightShown(A, flight_id)
  THEN [A |-> A, log |-> << >>, raised |-> FALSE]
  ELSE
    LET clear == RenderEvent("clear_display", None, FALSE) IN
    IF ShowRaises(dc)
    THEN [A |-> A, raised |-> TRUE,
          log |-> <<clear, RenderEvent("show_flight_info", display_data, TRUE)>>]
    ELSE [A |-> [A EXCEPT !.last_flight_id = Some(flight_id),
                          !.current_display_mode = Some("flight")],
          raised |-> FALSE,
          log |-> <<clear, RenderEvent("show_flight_info", display_data, FALSE)>>]

\* Variant: the no-flights message is drawn and the weather display after it.
HandleNoFlightsThenWeather(A, dc, display_data) ==
  IF A.current_display_mode # Some("no_flights")
  THEN IF ShowRaises(dc)
       THEN [A |-> A, raised |-> TRUE,
             log |-> <<RenderEvent("show_no_flights_message", display_data, TRUE)>>]
       ELSE [A |-> [A EXCEPT !.current_display_mode = Some("no_flights"),
                             !.last_flight_id = None],
             raised |-> FALSE,
             log |-> <<RenderEvent("show_no_flights_message", display_data, FALSE),
                       RenderEvent("show_weather_info", display_data, FALSE)>>]
  ELSE [A |-> A, log |-> << >>, raised |-> FALSE]

\* Variant: the no-flights redraw leaves last_flight_id as it was.
HandleNoFlightsKeepingFlightId(A, dc, display_data) ==
  IF A.current_display_mode # Some("no_flights")
  THEN IF ShowRaises(dc)
       THEN [A |-> A, raised |-> TRUE,
             log |-> <<RenderEvent("show_no_flights_message", display_data, TRUE)>>]
       ELSE [A |-> [A EXCEPT !.current_display_mode = Some("no_flights")],
             raised |-> FALSE,
             log |-> <<RenderEvent("show_no_flights_message", display_data, FALSE)>>]
  ELSE [A |-> A, log |-> << >>, raised |-> FALSE]

\* Variant: the mode is recorded before the no-flights message is drawn.
HandleNoFlightsModeFirst(A, dc, display_data) ==
  IF A.current_display_mode # Some("no_flights")
  THEN [A |-> [A EXCEPT !.current_display_mode = Some("no_flights"),
                        !.last_flight_id = None],
        raised |-> ShowRaises(dc),
        log |-> <<RenderEvent("show_no_flights_message", display_data,
                              ShowRaises(dc))>>]
  ELSE [A |-> A, log |-> << >>, raised |-> FALSE]

\* FlightPortalApp._handle_no_flights_display
handle_no_flights_display(A, dc, display_data) ==
  IF A.current_display_mode # Some("no_flights")
  THEN IF ShowRaises(dc)
       THEN [A |-> A, raised |-> TRUE,
             log |-> <<RenderEvent("show_no_flights_message", display_data, TRUE)>>]
       ELSE [A |-> [A EXCEPT !.current_display_mode = Some("no_flights"),
                             !.last_flight_id = None],
             raised |-> FALSE,
             log |-> <<RenderEvent("show_no_flights_message", display_data, FALSE)>>]
  ELSE [A |-> A, log |-> << >>, raised |-> FALSE]

\* FlightPortalApp._handle_weather_display, called at clock t with the
\* cycle's current_time.
handle_weather_display(A, L, dc, t, display_data, current_time, mresp, aresp) ==
  Only({
    IF pre.A.current_display_mode # Some("weather")
    THEN IF ShowRaises(dc)
         THEN [A |-> pre.A, L |-> pre.L, t |-> pre.t, raised |-> TRUE,
               log |-> pre.log \o
                       <<RenderEvent("show_weather_info", pre.data, TRUE)>>]
         ELSE [A |-> [pre.A EXCEPT !.current_display_mode = Some("weather"),
                                   !.last_flight_id = None],
               L |-> pre.L, t |-> pre.t, raised |-> FALSE,
               log |-> pre.log \o
                       <<RenderEvent("show_weather_info", pre.data, FALSE)>>]
    ELSE [A |-> pre.A, L |-> pre.L, t |-> pre.t, raised |-> FALSE,
          log |-> pre.log] :
    \* lines 131-134: the periodic refresh
    pre \in { IF (current_time - A.last_weather_refresh) >= WEATHER_REFRESH_INTERVAL
              THEN Only({ [data |-> wd.ret,
                           A |-> [A EXCEPT !.last_weather_refresh = current_time],
                           L |-> wd.L, t |-> wd.t, log |-> wd.log] :
                          wd \in {get_weather_display(L, t, TRUE, mresp, aresp)} })
              ELSE [data |-> display_data, A |-> A, L |-> L, t |-> t,
                    log |-> << >>] } })

\* The for loop of _sleep_with_watchdog (lines 147-152) from its k-th pass
\* on: range(0, total, 5) has passes k = 0, 5, ... below total.
RECURSIVE SleepSlices(_, _, _)
SleepSlices(k, total, sleep_time) ==
  IF k >= total THEN << >>
  ELSE LET slice == IF 5 < sleep_time THEN 5 ELSE sleep_time IN
       <<[ev |-> "feed_watchdog"], [ev |-> "sleep", secs |-> slice]>> \o
       Only({ IF rest <= 0 THEN << >> ELSE SleepSlices(next, total, rest) :
              next \in {k + 5}, rest \in {sleep_time - 5} })

\* FlightPortalApp._sleep_with_watchdog: the events of the sleep.
sleep_with_watchdog(dc, sleep_time) ==
  IF dc.watchdog
  THEN SleepSlices(0, sleep_time, sleep_time)
  ELSE <<[ev |-> "sleep", secs |-> IF sleep_time < 10 THEN sleep_time ELSE 10]>>

RECURSIVE SleptSeconds(_, _)
SleptSeconds(log, i) ==
  IF i > Len(log) THEN 0
  ELSE (IF log[i].ev = "sleep" THEN log[i].secs ELSE 0) +
       Only({ SleptSeconds(log, j) : j \in {i + 1} })

\* Variant: the runway check is made in every pass.
RunwayCheckDueAlways(A, current_time) == TRUE

\* The test of line 63.
RunwayCheckDue(A, current_time) ==
  (current_time - A.last_runway_check) >= RUNWAY_CHECK_INTERVAL

\* One pass of the while loop of FlightPortalApp.run (lines 59-102), started
\* at clock t: aresp, fresp, mresp and mresp2 are the advisory, flight-feed
\* and (first and second) weather exchanges the pass meets if it fetches.
run_cycle(A, L, dc, t, aresp, fresp, mresp, mresp2) ==
  LET current_time == t IN
  Only({ Only({ Only({
    LET sleep_time == IF h.raised THEN 30
                      ELSE IF dd.ret.type \in {"flight", "no_flights"}
                      THEN FLIGHT_POLL_INTERVAL
                      ELSE SLEEP_WHEN_INACTIVE
    IN Only({ [A |-> h.A, L |-> h.L, ret |-> dd.ret, raised |-> h.raised,
               t |-> h.t + SleptSeconds(sleep, 1),
               log |-> pre.log \o dd.log \o h.log \o sleep] :
              sleep \in {sleep_with_watchdog(dc, sleep_time)} }) :
    \* lines 72-82: the handler of the intent's type
    h \in { IF dd.ret.type = "flight"
            THEN handle_flight_display(pre.A, dc, dd.ret) @@
                 [L |-> dd.L, t |-> dd.t]
            ELSE IF dd.ret.type = "no_flights"
            THEN handle_no_flights_display(pre.A, dc, dd.ret) @@
                 [L |-> dd.L, t |-> dd.t]
            ELSE handle_weather_display(pre.A, dd.L, dc, dd.t, dd.ret,
                                        current_time, mresp2, aresp) } }) :
    \* line 69
    dd \in {get_display_data(pre.L, pre.t, aresp, fresp, mresp)} }) :
    \* lines 63-66: the runway check every 15 minutes
    pre \in { IF RunwayCheckDue(A, current_time)
              THEN Only({ [A |-> [A EXCEPT !.last_runway_check = current_time],
                           L |-> forced.L, t |-> forced.t, log |-> forced.log] :
                          forced \in {check_runway_status(L, t, TRUE, aresp)} })
              ELSE [A |-> A, L |-> L, t |-> t, log |-> << >>] } })

\* ------------------------------------------------------------------- state
VARIABLES
  now,                 \* time.time(), whole seconds
  flight_logic,        \* the FlightLogic instance
  app,                 \* the FlightPortalApp instance
  display_controller,  \* the platform the DisplayController found
  ev,                  \* the operation just carried out: its arguments, the
                       \* state it met, its result and its events in order
  unforced,            \* the check_runway_status(force_refresh=False) calls
                       \* a client made itself since its last forced one, each
                       \* with its time and result: [t, ret]
  forced_at,           \* the start times of the passes of the poll loop that
                       \* called check_runway_status(force_refresh=True)
  upstream,            \* what the advisory source serves: any text or failure
                       \* ("any"), or, since the instant `since`, only texts
                       \* whose landing runway is 04 ("04") or is not ("other")
  shown                \* the last show_* call made to the renderer,
                       \* [fn, arg, raised], or None before the first one

vars ==
  <<now, flight_logic, app, display_controller, ev, unforced, forced_at,
    upstream, shown>>

\* The clock at construction.  time.time() counts from an epoch, so it is
\* beyond every interval of config.py.
StartTime == 1000

\* ---------------------------------------------------------- reading the log
IsCall(e, fn) == e.ev = "call" /\ e.fn = fn
IsFetch(e, src) == e.ev = "fetch" /\ e.src = src
IsReturn(e, fn) == e.ev = "return" /\ e.fn = fn
IsRender(e) == e.ev = "render"
CallsOf(log, fn) == {i \in 1..Len(log) : IsCall(log[i], fn)}
FetchesOf(log, src) == {i \in 1..Len(log) : IsFetch(log[i], src)}
\* the call at position i of the log is followed at once by a fetch from src
FetchedAt(log, i, src) == i < Len(log) /\ IsFetch(log[i + 1], src)
\* the value check_runway_status, called at position i, returned
RunwayReturnAt(log, i) ==
  IF FetchedAt(log, i, "atis") THEN log[i + 2].val ELSE log[i + 1].val

\* unforced after the events of log
RECURSIVE TrackUnforced(_, _, _)
TrackUnforced(prev, log, i) ==
  IF i > Len(log) THEN prev
  ELSE Only({ TrackUnforced(calls, log, j) :
              j \in {i + 1},
              calls \in { IF IsCall(log[i], "check_runway_status")
                          THEN IF log[i].force THEN {}
                               ELSE prev \cup {[t |-> log[i].t,
                                                ret |-> RunwayReturnAt(log, i)]}
                          ELSE prev } })

\* An exchange that no fetch of the operation met is the first of its list:
\* the operation's outcome does not depend on it.
Met(log, a, f, m, m2) ==
  /\ a = 1 \/ FetchesOf(log, "atis") # {}
  /\ f = 1 \/ FetchesOf(log, "flights") # {}
  /\ m = 1 \/ FetchesOf(log, "metar") # {}
  /\ m2 = 1 \/ Cardinality(FetchesOf(log, "metar")) >= 2

InitWith(platforms) ==
  /\ now = StartTime
  /\ flight_logic = FlightLogicInit
  /\ app = AppInit
  /\ display_controller \in platforms
  /\ ev = [op |-> "init", force |-> FALSE, t |-> StartTime,
           before |-> FlightLogicInit, app_before |-> AppInit, prev |-> {},
           ret |-> None, raised |-> FALSE, log |-> << >>]
  /\ unforced = {}
  /\ forced_at = {}
  /\ upstream = [runway |-> "any", since |-> StartTime]
  /\ shown = None

\* --------------------------------------------------- clients of FlightLogic
\* test/tests.py and any other caller of the FlightLogic methods, on a desktop
\* (no matrix hardware).  A client calls at the instants CallTimes, placed
\* around each cache's time to live.
CallOffsets ==
  {0} \cup {k + d : k \in {WEATHER_REFRESH_INTERVAL, RUNWAY_CHECK_INTERVAL},
                    d \in {0 - CONNECTION_TIMEOUT, 0}}
CallTimes == {StartTime + o : o \in CallOffsets}

ClientInit == InitWith({p \in Platforms : p.hardware_type = "none"})

\* A client calls op at instant t and gets the result r.
Called(op, force, t, r) ==
  /\ t >= now
  /\ now' = r.t
  /\ flight_logic' = r.L
  /\ ev' = [op |-> op, force |-> force, t |-> t, before |-> flight_logic,
            app_before |-> app, prev |-> unforced, ret |-> r.ret,
            raised |-> FALSE, log |-> r.log]
  /\ unforced' = IF op = "check_runway_status"
                  THEN TrackUnforced(unforced, r.log, 1) ELSE unforced
  /\ UNCHANGED <<app, display_controller, forced_at, upstream, shown>>

CheckRunwayStatus ==
  \E t \in CallTimes, force \in BOOLEAN, a \in 1..Len(AtisResponses) :
    \E r \in {check_runway_status(flight_logic, t, force, AtisResponses[a])} :
    /\ Met(r.log, a, 1, 1, 1)
    /\ Called("check_runway_status", force, t, r)

\* The advisory exchanges the clients of get_weather_display meet: the plain
\* LND texts, a text naming no arrivals runway, and the failures.
WeatherAtis == (1..5) \cup ((Len(AtisTexts) + 1)..Len(AtisResponses))

GetWeatherDisplay ==
  \E t \in CallTimes, force \in BOOLEAN,
     m \in 1..Len(MetarResponses), a \in WeatherAtis :
    \E r \in {get_weather_display(flight_logic, t, force,
                                   MetarResponses[m], AtisResponses[a])} :
    /\ Met(r.log, a, 1, m, 1)
    /\ Called("get_weather_display", force, t, r)

\* The exchanges the clients of get_display_data meet: runway 04, 4R or 22 in
\* use, no arrivals runway named (with and without a departures runway) or
\* one of the failures; every feed; a weather report, a timeout or a non-200
\* status.
DisplayAtis == {1, 2, 3, 5, 10} \cup ((Len(AtisTexts) + 1)..Len(AtisResponses))
DisplayMetar == {1, 3, 4}

GetDisplayData ==
  \E t \in CallTimes, a \in DisplayAtis,
     f \in 1..Len(FlightResponses), m \in DisplayMetar :
    \E r \in {get_display_data(flight_logic, t, AtisResponses[a],
                                FlightResponses[f], MetarResponses[m])} :
    /\ Met(r.log, a, f, m, 1)
    /\ Called("get_display_data", FALSE, t, r)

\* RunwayMonitor: the clients of check_runway_status.
SpecRunway == ClientInit /\ [][CheckRunwayStatus]_vars
\* WeatherMonitor: the clients of get_weather_display.
SpecWeather == ClientInit /\ [][GetWeatherDisplay]_vars
\* DisplaySelector: the clients of get_display_data.
SpecDisplay == ClientInit /\ [][GetDisplayData]_vars

\* ------------------------------------------------------------ the poll loop
\* The loop runs until Horizon seconds after the start.
Horizon == 960

Init == InitWith(Platforms)

\* The exchanges the loop meets: runway 04 or 22 in use or a timeout; each
\* feed body or a timeout; a weather report or a timeout.
LoopAtis == {1, 3, Len(AtisTexts) + 1}
LoopFlights == {1, 2, 3, 4}
LoopMetar == {1, 3}

Least(S) == CHOOSE x \in S : \A y \in S : x <= y

\* The show_* calls among the events of log, and the last show_* call made
\* after them.
Drawn(log) ==
  {i \in 1..Len(log) : IsRender(log[i]) /\ log[i].fn # "clear_display"}
ShownAfter(prev, log) ==
  IF Drawn(log) = {} THEN prev
  ELSE Only({ Some([fn |-> log[i].fn, arg |-> log[i].arg,
                    raised |-> log[i].raised]) :
              i \in {CHOOSE j \in Drawn(log) : \A k \in Drawn(log) : k <= j} })

\* Met for exchanges drawn from the sets atis, flights and metar: an exchange
\* that no fetch met is the least of its set.
MetOf(log, atis, flights, metar, a, f, m, m2) ==
  /\ a = Least(atis) \/ FetchesOf(log, "atis") # {}
  /\ f = Least(flights) \/ FetchesOf(log, "flights") # {}
  /\ m = Least(metar) \/ FetchesOf(log, "metar") # {}
  /\ m2 = Least(metar) \/ Cardinality(FetchesOf(log, "metar")) >= 2

\* One pass of the loop, started before the instant until, meeting
\* exchanges of the sets atis, flights and metar.
CycleWith(atis, flights, metar, until) ==
  \E a \in atis, f \in flights, m \in metar, m2 \in metar :
    \E r \in {run_cycle(app, flight_logic, display_controller, now,
                         AtisResponses[a], FlightResponses[f],
                         MetarResponses[m], MetarResponses[m2])} :
    /\ now < until
    /\ MetOf(r.log, atis, flights, metar, a, f, m, m2)
    /\ now' = r.t
    /\ flight_logic' = r.L
    /\ app' = r.A
    /\ ev' = [op |-> "run", force |-> FALSE, t |-> now, before |-> flight_logic,
              app_before |-> app, prev |-> unforced, ret |-> r.ret,
              raised |-> r.raised, log |-> r.log]
    /\ forced_at' = IF \E i \in CallsOf(r.log, "check_runway_status") :
                          r.log[i].force
                     THEN forced_at \cup {now} ELSE forced_at
    /\ shown' = ShownAfter(shown, r.log)
    /\ UNCHANGED <<display_controller, unforced, upstream>>

Cycle == CycleWith(LoopAtis, LoopFlights, LoopMetar, StartTime + Horizon)

Next == Cycle

Spec == Init /\ [][Next]_vars

\* ------------------------------------------- the poll loop left to run on
\* The loop runs until LiveHorizon seconds after the start; up to SettleBy
\* seconds after the start the advisory source may settle on a landing
\* runway, which it then serves without failures.
LiveHorizon == 1100
SettleBy == 90

\* The advisory exchanges the source serves: 'LND RY 04' or 'lnd rwy 4r' once
\* settled on runway 04, 'LND RY 22' once settled on another runway.
LiveAtis ==
  IF upstream.runway = "04" THEN {1, 2}
  ELSE IF upstream.runway = "other" THEN {3}
  ELSE LoopAtis
\* The feeds: one with a flight on approach, one without.
LiveFlights == {1, 3}
\* The weather exchanges: two different reports.
LiveMetar == {1, 2}

Settle ==
  /\ upstream.runway = "any"
  /\ now <= StartTime + SettleBy
  /\ \E r \in {"04", "other"} : upstream' = [runway |-> r, since |-> now]
  /\ UNCHANGED <<now, flight_logic, app, display_controller, ev, unforced,
                 forced_at, shown>>

LiveCycle ==
  CycleWith(LiveAtis, LiveFlights, LiveMetar, StartTime + LiveHorizon)

LiveNext == LiveCycle \/ Settle

\* while True (main.py 58): every sleep ends and the next pass starts.
SpecLive == Init /\ [][LiveNext]_vars /\ WF_vars(LiveCycle)

\* ================================================================== claims
\* What the operation just carried out did.
Fetched(src) == FetchesOf(ev.log, src) # {}
FetchFailed(src) == \E i \in FetchesOf(ev.log, src) : ev.log[i].kind # "ok"
FetchSucceeded(src) == \E i \in FetchesOf(ev.log, src) : ev.log[i].kind = "ok"
RenderCalls == [i \in 1..Len(SelectSeq(ev.log, IsRender)) |->
                  SelectSeq(ev.log, IsRender)[i].fn]

\* The designator test as the specification words it: one trailing L, C or R
\* removed, the rest is "04" or "4".
Designator04(arrivals) ==
  /\ arrivals # None
  /\ LET d == arrivals[1]
         n == Len(d)
         core == IF n > 0 /\ d[n] \in {"L", "C", "R"} THEN SubSeq(d, 1, n - 1) ELSE d
     IN core = <<"0", "4">> \/ core = <<"4">>
ActiveIffDesignator04(status) ==
  status.runway_04_active <=> Designator04(status.arrivals)

\* C1: every get_display_data call yields exactly one intent, chosen by the
\* RunwayStatus its runway check returned and by the finder's result: with
\* runway_04_active the finder is consulted and the intent is FLIGHT carrying
\* the found record, or NO_FLIGHTS carrying the RunwayStatus when the finder
\* returned none; without runway_04_active the intent is WEATHER and the
\* finder is not consulted.
ExactlyOneIntent ==
  ev.op = "get_display_data" =>
    LET status == RunwayReturnAt(ev.log, 2)
        found == {i \in 1..Len(ev.log) : IsReturn(ev.log[i], "get_runway_04_flights")}
    IN /\ ev.ret.type \in {"flight", "no_flights", "weather"}
       /\ IF status.runway_04_active
          THEN /\ Cardinality(found) = 1
               /\ \A i \in found :
                    IF ev.log[i].val # None
                    THEN /\ ev.ret.type = "flight"
                         /\ \A k \in DOMAIN ev.log[i].val[1] :
                              ev.ret[k] = ev.log[i].val[1][k]
                    ELSE /\ ev.ret.type = "no_flights"
                         /\ ev.ret.runway_status = status
          ELSE /\ found = {}
               /\ ev.ret.type = "weather"

\* C1 witness: a call that met runway 04 in use and a feed whose first
\* eligible entry follows a skipped one, and answered FLIGHT with it.
FlightIntentChosen ==
  /\ ev.op = "get_display_data"
  /\ RunwayReturnAt(ev.log, 2).runway_04_active
  /\ ev.ret.type = "flight"
  /\ ev.ret.flight_id = "5b20"

\* C2: every RunwayStatus returned by check_runway_status, and the one held in
\* the runway cache, has runway_04_active true exactly when its arrivals
\* designator, one trailing L, C or R removed, is "04" or "4".
Runway04ActiveIffDesignator ==
  /\ \A i \in 1..Len(ev.log) :
       IsReturn(ev.log[i], "check_runway_status") => ActiveIffDesignator04(ev.log[i].val)
  /\ flight_logic.cached_runway_status # None =>
       ActiveIffDesignator04(flight_logic.cached_runway_status[1])

\* C2 witness: the status built from an advisory naming runway 4R is returned
\* and cached as active.
SuffixedRunway04Cached ==
  /\ ev.op = "check_runway_status"
  /\ ev.ret.arrivals = Some(<<"4", "R">>)
  /\ ev.ret.runway_04_active
  /\ flight_logic.cached_runway_status = Some(ev.ret)

\* C3: when the advisory fetch fails, check_runway_status returns the status
\* cached before the call and leaves the cache as it was; with nothing cached
\* it returns the default status stamped with the time of the call.
RunwayFailureKeepsCache ==
  (ev.op = "check_runway_status" /\ FetchFailed("atis")) =>
    IF ev.before.cached_runway_status # None
    THEN /\ ev.ret = ev.before.cached_runway_status[1]
         /\ flight_logic.cached_runway_status = ev.before.cached_runway_status
    ELSE ev.ret = [runway_04_active |-> FALSE, arrivals |-> None,
                   departures |-> None, last_updated |-> ev.t]

\* C5 as stated: an unforced call less than 900 s after an earlier unforced
\* call, no forced one between them, fetches nothing and returns what the
\* earlier call returned.
UnforcedWithin900OfCall ==
  (ev.op = "check_runway_status" /\ ~ev.force) =>
    \A c \in ev.prev :
      ev.t - c.t < RUNWAY_CHECK_INTERVAL =>
        ~Fetched("atis") /\ ev.ret = c.ret

\* C5 amended: an unforced call less than 900 s after the last_updated of the
\* status an earlier unforced call returned, no forced one between them,
\* fetches nothing and returns what the earlier call returned.
UnforcedWithin900OfUpdate ==
  (ev.op = "check_runway_status" /\ ~ev.force) =>
    \A c \in ev.prev :
      ev.t - c.ret.last_updated < RUNWAY_CHECK_INTERVAL =>
        ~Fetched("atis") /\ ev.ret = c.ret

\* C5 witness: a second unforced call, later than the first and less than
\* 900 s after the first one's status was built, served from the cache.
SecondUnforcedServedFromCache ==
  /\ ev.op = "check_runway_status"
  /\ ~ev.force
  /\ ~Fetched("atis")
  /\ \E c \in ev.prev :
       /\ c.t < ev.t
       /\ ev.t - c.ret.last_updated < RUNWAY_CHECK_INTERVAL
       /\ ev.ret = c.ret

\* C6: a forced check_runway_status always fetches the advisory, whatever the
\* age of the cache; when the fetch succeeds the cache holds the newly built
\* status, which is the one returned, and the runway timestamp is the time of
\* the call.
ForcedAlwaysFetches ==
  \A i \in CallsOf(ev.log, "check_runway_status") :
    ev.log[i].force =>
      /\ FetchedAt(ev.log, i, "atis")
      /\ (ev.op = "check_runway_status" /\ ev.log[i + 1].kind = "ok") =>
           /\ flight_logic.cached_runway_status = Some(ev.ret)
           /\ ev.ret.last_updated = ev.t
           /\ flight_logic.last_runway_check = ev.t

\* C6 witness: a forced call made while the cache was still fresh fetched
\* successfully and replaced the cached status by a different one.
ForcedReplacesFreshCache ==
  /\ ev.op = "check_runway_status"
  /\ ev.force
  /\ FetchSucceeded("atis")
  /\ ev.before.cached_runway_status # None
  /\ ev.t - ev.before.last_runway_check < RUNWAY_CHECK_INTERVAL
  /\ ev.before.cached_runway_status[1].arrivals # ev.ret.arrivals
  /\ flight_logic.cached_runway_status = Some(ev.ret)

\* C7: check_runway_status returns without a fetch only a cached status less
\* than 900 s old; an unforced call made when the cached status is 900 s old
\* or older attempts a fetch.
RunwayTtlBoundary ==
  ev.op = "check_runway_status" =>
    LET cached == ev.before.cached_runway_status IN
    /\ ~Fetched("atis") =>
         /\ cached # None
         /\ ev.t - cached[1].last_updated < RUNWAY_CHECK_INTERVAL
         /\ ev.ret = cached[1]
    /\ (cached # None /\ ev.t - cached[1].last_updated >= RUNWAY_CHECK_INTERVAL) =>
         Fetched("atis")

\* C7 witness: an unforced call at an age of exactly 900 s fetched.
RunwayFetchedAtBoundary ==
  /\ ev.op = "check_runway_status"
  /\ ~ev.force
  /\ ev.before.cached_runway_status # None
  /\ ev.t - ev.before.cached_runway_status[1].last_updated = RUNWAY_CHECK_INTERVAL
  /\ Fetched("atis")

\* C4: when the weather-report fetch fails, get_weather_display returns the
\* snapshot cached before the call and leaves the weather cache as it was;
\* with nothing cached it returns a snapshot whose raw report is
\* "Weather unavailable".
WeatherFailureKeepsCache ==
  (ev.op = "get_weather_display" /\ FetchFailed("metar")) =>
    IF ev.before.cached_weather_data # None
    THEN /\ ev.ret = ev.before.cached_weather_data[1]
         /\ flight_logic.cached_weather_data = ev.before.cached_weather_data
    ELSE ev.ret.metar = Some("Weather unavailable")

\* C8: an unforced get_weather_display returns the cached snapshot without a
\* weather fetch when the snapshot is less than 300 s old, and attempts a
\* fetch when it is 300 s old or older or when there is none; a forced call
\* always attempts a fetch.
WeatherTtl ==
  ev.op = "get_weather_display" =>
    LET cached == ev.before.cached_weather_data
        fresh == cached # None /\
                 ev.t - cached[1].last_updated < WEATHER_REFRESH_INTERVAL
    IN /\ (~ev.force /\ fresh) => (~Fetched("metar") /\ ev.ret = cached[1])
       /\ (~ev.force /\ ~fresh) => Fetched("metar")
       /\ ev.force => Fetched("metar")

\* C8 witness: an unforced call at an age of exactly 300 s fetched the report.
WeatherFetchedAtBoundary ==
  /\ ev.op = "get_weather_display"
  /\ ~ev.force
  /\ ev.before.cached_weather_data # None
  /\ ev.t - ev.before.cached_weather_data[1].last_updated = WEATHER_REFRESH_INTERVAL
  /\ Fetched("metar")

\* C9: a cycle whose intent is FLIGHT with id X, started with the display
\* left as FLIGHT X (current_display_mode flight, last_flight_id X), makes no
\* renderer call and leaves last_flight_id and current_display_mode as they
\* were.
SameFlightNoRedraw ==
  (/\ ev.op = "run"
   /\ ev.ret.type = "flight"
   /\ ev.app_before.current_display_mode = Some("flight")
   /\ ev.app_before.last_flight_id = Some(ev.ret.flight_id)) =>
    /\ RenderCalls = << >>
    /\ app.last_flight_id = ev.app_before.last_flight_id
    /\ app.current_display_mode = ev.app_before.current_display_mode

\* C9 witness: a second consecutive cycle with the same flight.
SameFlightRepeated ==
  /\ ev.op = "run"
  /\ ev.ret.type = "flight"
  /\ ev.ret.flight_id = "3a1f"
  /\ ev.app_before.current_display_mode = Some("flight")
  /\ ev.app_before.last_flight_id = Some("3a1f")
  /\ app.last_flight_id = Some("3a1f")

\* C10: a cycle whose intent is FLIGHT with id Y, started with the display
\* left as FLIGHT of another id, as NO_FLIGHTS or as WEATHER, calls the
\* renderer exactly twice, clear_display and then show_flight_info, and ends
\* with last_flight_id = Y and current_display_mode = flight.
NewFlightOneRedraw ==
  (/\ ev.op = "run"
   /\ ev.ret.type = "flight"
   /\ \/ /\ ev.app_before.current_display_mode = Some("flight")
         /\ ev.app_before.last_flight_id # Some(ev.ret.flight_id)
      \/ ev.app_before.current_display_mode \in {Some("no_flights"), Some("weather")}) =>
    /\ RenderCalls = <<"clear_display", "show_flight_info">>
    /\ app.last_flight_id = Some(ev.ret.flight_id)
    /\ app.current_display_mode = Some("flight")

\* C10 witness: the display showed weather, the runway refresh found runway
\* 04 in use, and the cycle redrew to a flight.
FlightAfterWeather ==
  /\ ev.op = "run"
  /\ ev.ret.type = "flight"
  /\ ev.app_before.current_display_mode = Some("weather")
  /\ RenderCalls = <<"clear_display", "show_flight_info">>
  /\ app.current_display_mode = Some("flight")

\* The redraw calls of the operation just carried out.
ShowCalls ==
  {i \in 1..Len(ev.log) :
     IsRender(ev.log[i]) /\
     ev.log[i].fn \in {"show_flight_info", "show_no_flights_message",
                       "show_weather_info"}}
\* The pass's intent is FLIGHT with the flight id of the FLIGHT state the
\* previous pass left.
SameFlightAsPrevious ==
  /\ ev.ret.type = "flight"
  /\ ev.app_before.current_display_mode = Some("flight")
  /\ ev.app_before.last_flight_id = Some(ev.ret.flight_id)

\* C11: every pass of the loop whose intent is not a FLIGHT with the flight
\* id of the previous pass's FLIGHT issues a redraw call to the renderer, also
\* when WEATHER follows WEATHER or NO_FLIGHTS follows NO_FLIGHTS.
OtherTransitionRedraws ==
  (ev.op = "run" /\ ~SameFlightAsPrevious) => ShowCalls # {}

\* The feed fetches of the operation just carried out that got a body; the
\* finder's return follows each in the log.
FeedsScanned ==
  {i \in FetchesOf(ev.log, "flights") : ev.log[i].kind = "ok"}
\* A feed entry that is a flight array under an unreserved key.
IsFlightArray(e) == e.key \notin {"version", "full_count"} /\ e.is_list
\* An entry the specification calls valid and filtered: at least 13 fields,
\* altitude (field 4) below the limit.
Qualifies(e) ==
  IsFlightArray(e) /\ Len(e.val) >= 13 /\ e.val[5] < MAX_APPROACH_ALTITUDE
FirstOf(S) == CHOOSE k \in S : \A j \in S : k <= j

\* C12: get_runway_04_flights returns the record of the first feed entry, in
\* feed order, that is a flight array under an unreserved key with at least 13
\* fields and altitude below 5000, and none when no entry qualifies.
FirstQualifyingReturned ==
  \A i \in FeedsScanned :
    LET data == ev.log[i].resp.data
        q == {k \in 1..Len(data) : Qualifies(data[k])}
        val == ev.log[i + 1].val
    IN IF q = {} THEN val = None
       ELSE val # None /\ val[1].flight_id = data[FirstOf(q)].key

\* The callsign the specification derives from a flight array: field 16 if
\* present, else field 13, "Unknown" when that is empty or absent.
StatedCallsign(f) ==
  LET c == IF Len(f) >= 17 THEN f[17] ELSE IF Len(f) >= 14 THEN f[14] ELSE ""
  IN IF c = "" THEN "Unknown" ELSE c

\* C13: the extraction of a flight array with at least 13 fields and altitude
\* below 5000 succeeds, so the first such array of a feed is selected, with
\* altitude = field 4, speed = field 5, type = field 8, origin = field 11,
\* destination = field 12 and the callsign from field 16, else field 13, else
\* "Unknown".
QualifyingEntryExtracted ==
  \A i \in FeedsScanned :
    LET data == ev.log[i].resp.data
        q == {k \in 1..Len(data) : Qualifies(data[k])}
        val == ev.log[i + 1].val
    IN q # {} =>
         /\ val # None
         /\ LET f == data[FirstOf(q)].val
                r == val[1]
            IN /\ r.altitude = f[5]
               /\ r.speed = f[6]
               /\ r.aircraft_type = f[9]
               /\ r.origin = f[12]
               /\ r.destination = f[13]
               /\ r.callsign = StatedCallsign(f)

\* A candidate that cannot be extracted: fewer than 13 fields, or the 13
\* fields whose extraction raises at flight_info[13].
Malformed(e) == IsFlightArray(e) /\ Len(e.val) <= 13
\* A candidate that can be extracted and is below the altitude limit.
Sound(e) ==
  IsFlightArray(e) /\ Len(e.val) > 13 /\ e.val[5] < MAX_APPROACH_ALTITUDE

\* C14: a malformed candidate is skipped without ending the scan: when a feed
\* has malformed candidates ahead of its first extractable entry below 5000
\* ft, get_runway_04_flights returns that entry's record.
MalformedCandidateSkipped ==
  \A i \in FeedsScanned :
    LET data == ev.log[i].resp.data
        sound == {k \in 1..Len(data) : Sound(data[k])}
        val == ev.log[i + 1].val
    IN (sound # {} /\ \E j \in 1..FirstOf(sound) : Malformed(data[j])) =>
         /\ val # None
         /\ val[1].flight_id = data[FirstOf(sound)].key
         /\ val[1].altitude = data[FirstOf(sound)].val[5]

\* C14 witness: a feed with a 12-field and a 13-field array, both below 5000
\* ft, ahead of a complete one; the intent is FLIGHT with the complete one.
LaterEntryAfterMalformed ==
  /\ ev.op = "get_display_data"
  /\ \E i \in FeedsScanned :
       LET data == ev.log[i].resp.data IN
       /\ \E j, k \in 1..Len(data) :
            /\ j < k
            /\ Malformed(data[j]) /\ Len(data[j].val) < 13
            /\ Malformed(data[k]) /\ Len(data[k].val) = 13
            /\ data[k].val[5] < MAX_APPROACH_ALTITUDE
            /\ \E n \in (k + 1)..Len(data) : Sound(data[n])
       /\ ev.log[i + 1].val # None
  /\ ev.ret.type = "flight"
  /\ ev.ret.flight_id = "3a1f"

\* ------------------------------------------------ the patterns, as specified
\* What the specification's patterns say about a text x, stated over
\* positions of x: [a, b) is the part of x from a up to b - 1.
AtWord(x, i, w) ==
  i >= 1 /\ i + Len(w) - 1 <= Len(x) /\ \A k \in 1..Len(w) : x[i + k - 1] = w[k]
Blanks(x, a, b) == a < b /\ \A k \in a..(b - 1) : x[k] \in {" ", "\t", "\n"}
AllDigits(x, a, b) ==
  a < b /\ \A k \in a..(b - 1) : x[k] \in {"0","1","2","3","4","5","6","7","8","9"}
\* [g, h) is a runway designator: the whole run of digits at g and the L, C
\* or R that may follow it.
Designator(x, g, h) ==
  \E d \in (g + 1)..h :
    /\ AllDigits(x, g, d)
    /\ d > Len(x) \/ ~AllDigits(x, d, d + 1)
    /\ IF d <= Len(x) /\ x[d] \in {"L", "C", "R"} THEN h = d + 1 ELSE h = d
\* blanks, APCH, blanks, IN, blanks, USE follow at h
ApchInUseFollows(x, h) ==
  \E a \in (h + 1)..Len(x) :
    /\ Blanks(x, h, a) /\ AtWord(x, a, <<"A","P","C","H">>)
    /\ \E b \in (a + 5)..Len(x) :
         /\ Blanks(x, a + 4, b) /\ AtWord(x, b, <<"I","N">>)
         /\ \E c \in (b + 3)..Len(x) :
              Blanks(x, b + 2, c) /\ AtWord(x, c, <<"U","S","E">>)
\* the designators of the occurrences, starting at i, of
\*   <word> blanks (RY|RWY) blanks <designator> [blanks APCH blanks IN blanks USE]
OccursAt(x, i, word, apch) ==
  { SubSeq(x, p[1], p[2] - 1) :
      p \in { q \in (i..Len(x)) \X (i..(Len(x) + 1)) :
                /\ q[1] < q[2]
                /\ AllDigits(x, q[1], q[1] + 1)
                /\ Designator(x, q[1], q[2])
                /\ \E a \in i..q[1] :
                     /\ IF word = << >> THEN a = i
                        ELSE AtWord(x, i, word) /\ Blanks(x, i + Len(word), a)
                     /\ \E ry \in { <<"R","Y">>, <<"R","W","Y">> } :
                          AtWord(x, a, ry) /\ Blanks(x, a + Len(ry), q[1])
                /\ apch => ApchInUseFollows(x, q[2]) } }
\* the designator of the leftmost occurrence, if the pattern occurs in x
Occurrence(x, word, apch) ==
  LET starts == {i \in 1..Len(x) : OccursAt(x, i, word, apch) # {}} IN
  IF starts = {} THEN None
  ELSE Some(CHOOSE g \in OccursAt(x, FirstOf(starts), word, apch) : TRUE)
\* the four arrival patterns in their priority order, and DEPART|DEP
ArrivalOccurrences(x) ==
  << Occurrence(x, <<"L","N","D">>, FALSE),
     Occurrence(x, <<"L","A","N","D","I","N","G">>, FALSE),
     Occurrence(x, <<"I","L","S">>, TRUE),
     Occurrence(x, << >>, TRUE) >>
DepartureOccurrence(x) ==
  LET depart == {i \in 1..Len(x) :
                   OccursAt(x, i, <<"D","E","P","A","R","T">>, FALSE) # {}}
      dep == {i \in 1..Len(x) : OccursAt(x, i, <<"D","E","P">>, FALSE) # {}}
  IN IF depart \cup dep = {} THEN None
     ELSE IF FirstOf(depart \cup dep) \in depart
          THEN Occurrence(x, <<"D","E","P","A","R","T">>, FALSE)
          ELSE Occurrence(x, <<"D","E","P">>, FALSE)
\* the designators that follow the phrase LANDING RUNWAY in x
LandingRunwayPhrase(x) ==
  { SubSeq(x, i + 15, h - 1) :
      i \in { k \in 1..Len(x) :
                AtWord(x, k, <<"L","A","N","D","I","N","G"," ",
                               "R","U","N","W","A","Y"," ">>) },
      h \in { k \in 1..(Len(x) + 1) :
                \E i \in 1..Len(x) :
                  /\ AtWord(x, i, <<"L","A","N","D","I","N","G"," ",
                                    "R","U","N","W","A","Y"," ">>)
                  /\ i + 15 < k
                  /\ Designator(x, i + 15, k) } }
\* the above for each advisory text served, upper-cased
Stated ==
  [a \in 1..Len(AtisTexts) |->
     [arrivals |-> ArrivalOccurrences(Upper(AtisTexts[a])),
      departures |-> DepartureOccurrence(Upper(AtisTexts[a])),
      has_lnd |-> \E i \in 1..Len(AtisTexts[a]) :
                    AtWord(Upper(AtisTexts[a]), i, <<"L","N","D">>),
      landing_runway |-> LandingRunwayPhrase(Upper(AtisTexts[a]))]]
StatedFor(datis) == Stated[CHOOSE a \in 1..Len(AtisTexts) : AtisTexts[a] = datis]
\* the advisory fetches of the operation just carried out that got a text;
\* the status built from each is the value of the return that follows it
AdvisoriesParsed ==
  {i \in FetchesOf(ev.log, "atis") : ev.log[i].kind = "ok"}

\* C15: the arrivals runway is the designator of the first of the patterns
\* LND, LANDING, ILS .. APCH IN USE, .. APCH IN USE, in this order, that occurs
\* anywhere in the upper-cased advisory, whatever a later pattern would give.
HighestPriorityPatternWins ==
  \A i \in AdvisoriesParsed :
    LET occ == StatedFor(ev.log[i].resp.datis).arrivals
        hit == {k \in 1..4 : occ[k] # None}
    IN ev.log[i + 1].val.arrivals =
         IF hit = {} THEN None ELSE occ[FirstOf(hit)]

\* C15 witness: an advisory in which the ILS pattern occurs first and names
\* runway 22 and the LND pattern occurs after it and names runway 04; the
\* status has arrivals 04.
LndBeatsEarlierIls ==
  /\ ev.op = "check_runway_status"
  /\ \E i \in AdvisoriesParsed :
       LET occ == StatedFor(ev.log[i].resp.datis).arrivals IN
       /\ occ[1] = Some(<<"0","4">>)
       /\ occ[3] = Some(<<"2","2">>)
  /\ ev.ret.arrivals = Some(<<"0","4">>)
  /\ ev.ret.runway_04_active

\* C16: a fetched advisory in which none of the four arrival patterns occurs
\* gives a status with arrivals none and runway_04_active false, and a
\* get_display_data that built its status from it answers WEATHER; the
\* departures runway is what the DEPART|DEP pattern gives, whatever the
\* arrivals, and does not make runway 04 active.
NoArrivalsMeansWeather ==
  \A i \in AdvisoriesParsed :
    LET stated == StatedFor(ev.log[i].resp.datis)
        status == ev.log[i + 1].val
    IN /\ status.departures = stated.departures
       /\ (\A k \in 1..4 : stated.arrivals[k] = None) =>
            /\ status.arrivals = None
            /\ ~status.runway_04_active
            /\ (ev.op = "get_display_data" /\ i = 3) => ev.ret.type = "weather"

\* C16 witness: get_display_data fetched an advisory that names runway 4 for
\* departures only; its status has departures 4, no arrivals, runway 04 not
\* active, and the intent is WEATHER.
DeparturesOnlyAdvisory ==
  /\ ev.op = "get_display_data"
  /\ 3 \in AdvisoriesParsed
  /\ \A k \in 1..4 : StatedFor(ev.log[3].resp.datis).arrivals[k] = None
  /\ ev.log[4].val.departures = Some(<<"4">>)
  /\ ev.log[4].val.arrivals = None
  /\ ~ev.log[4].val.runway_04_active
  /\ ev.ret.type = "weather"

\* C17: an advisory with the phrase LANDING RUNWAY <digits> and no LND is
\* parsed to that runway as the arrivals runway.
LandingRunwayPhraseParsed ==
  \A i \in AdvisoriesParsed :
    LET stated == StatedFor(ev.log[i].resp.datis) IN
    (stated.landing_runway # {} /\ ~stated.has_lnd) =>
      /\ ev.log[i + 1].val.arrivals # None
      /\ ev.log[i + 1].val.arrivals[1] \in stated.landing_runway

\* The sleeps of the pass just carried out, and the seconds they add up to.
Sleeps == {i \in 1..Len(ev.log) : ev.log[i].ev = "sleep"}
RECURSIVE SecondsFrom(_)
SecondsFrom(i) ==
  IF i > Len(ev.log) THEN 0
  ELSE (IF i \in Sleeps THEN ev.log[i].secs ELSE 0) + SecondsFrom(i + 1)
\* The sleep the specification gives the pass: 30 s after FLIGHT or
\* NO_FLIGHTS, 60 s after WEATHER, 30 s after a pass that ended in an error.
StatedSleep ==
  IF ev.raised THEN 30
  ELSE IF ev.ret.type \in {"flight", "no_flights"} THEN 30 ELSE 60

\* C18: after a pass that completed normally the loop sleeps 30 s in all when
\* the intent was FLIGHT or NO_FLIGHTS and 60 s in all when it was WEATHER.
SleepMatchesIntent ==
  (ev.op = "run" /\ ~ev.raised) => SecondsFrom(1) = StatedSleep

\* C19: each sleep of the loop is a sequence of slices of at most 5 s, the
\* liveness hook feed_watchdog is called once before each slice, and the
\* slices add up to the sleep requested.
SleepSlicedWithFeeds ==
  ev.op = "run" =>
    /\ \A i \in Sleeps :
         /\ ev.log[i].secs <= 5
         /\ i > 1 /\ ev.log[i - 1].ev = "feed_watchdog"
    /\ Cardinality({i \in 1..Len(ev.log) : ev.log[i].ev = "feed_watchdog"}) =
         Cardinality(Sleeps)
    /\ SecondsFrom(1) = StatedSleep

\* The passes before the one just carried out that forced a runway refresh.
ForcedBefore == forced_at \ {ev.t}
ForcedNow ==
  \E i \in CallsOf(ev.log, "check_runway_status") : ev.log[i].force

\* C20: a pass of the loop forces a runway refresh exactly when no pass has
\* forced one yet or at least 900 s have passed since the start of the last
\* pass that did; so the first pass forces one, and the passes that force one
\* start at least 900 s apart.
ForcedEvery900 ==
  ev.op = "run" =>
    /\ ForcedNow <=> \A s \in ForcedBefore : ev.t - s >= RUNWAY_CHECK_INTERVAL
    /\ Cardinality({i \in CallsOf(ev.log, "check_runway_status") :
                      ev.log[i].force}) <= 1
    /\ \A s1, s2 \in forced_at :
         s1 < s2 => s2 - s1 >= RUNWAY_CHECK_INTERVAL

\* C20 witness: a pass forces the second refresh of the run, after passes
\* that did not force one.
SecondForcedRefresh ==
  /\ ev.op = "run"
  /\ ForcedNow
  /\ ForcedBefore = {StartTime}
  /\ ev.t - StartTime >= RUNWAY_CHECK_INTERVAL

\* C21: an error raised inside a pass does not end the loop: the pass is
\* followed by a sleep of 30 s in all, after which the next pass starts.
ErrorPassSleeps30 ==
  (ev.op = "run" /\ ev.raised) =>
    /\ SecondsFrom(1) = 30
    /\ now = ev.t + 30

\* The returns of fn among the events of the operation just carried out.
ReturnsOf(fn) == {i \in 1..Len(ev.log) : IsReturn(ev.log[i], fn)}
MonitorMethods ==
  {"check_runway_status", "get_weather_display", "get_runway_04_flights",
   "get_display_data"}

\* C22: whatever the advisory, flight-feed and weather exchanges turn out to
\* be (a body, a timeout, a non-200 status, a malformed body, a text that
\* names no runway, a record that is too short), every call of
\* check_runway_status, get_weather_display, get_runway_04_flights and
\* get_display_data returns a value, and the value of get_display_data has
\* one of the three intent types.
MonitorsAlwaysReturn ==
  ev.op = "get_display_data" =>
    /\ \A fn \in MonitorMethods :
         /\ Cardinality(CallsOf(ev.log, fn)) = Cardinality(ReturnsOf(fn))
         /\ \A i \in CallsOf(ev.log, fn) : \E j \in ReturnsOf(fn) : i < j
    /\ \A i \in ReturnsOf("check_runway_status") :
         ev.log[i].val.runway_04_active \in BOOLEAN
    /\ \A i \in ReturnsOf("get_weather_display") :
         ev.log[i].val.type = "weather"
    /\ \A i \in ReturnsOf("get_runway_04_flights") :
         Len(ev.log[i].val) <= 1
    /\ IsReturn(ev.log[Len(ev.log)], "get_display_data")
    /\ ev.log[Len(ev.log)].val = ev.ret
    /\ ev.ret.type \in {"flight", "no_flights", "weather"}
    /\ ~ev.raised

\* C22 witness: a call in which a fetch failed and the flight feed was asked:
\* either the feed itself failed, or the feed held only records that are too
\* short to extract.
FetchesFailedStillReturned ==
  /\ ev.op = "get_display_data"
  /\ \/ FetchFailed("flights")
     \/ /\ FetchSucceeded("flights")
        /\ ev.ret.type = "no_flights"
        /\ \E i \in FetchesOf(ev.log, "flights") :
             \E k \in 1..Len(ev.log[i].resp.data) :
               /\ ev.log[i].resp.data[k].is_list
               /\ Len(ev.log[i].resp.data[k].val) <= 13
  /\ ev.ret.type \in {"flight", "no_flights", "weather"}

\* The value check_runway_status returned to the get_display_data call just
\* carried out: the RunwayStatus current in that call.
CurrentRunwayStatus ==
  ev.log[CHOOSE i \in ReturnsOf("check_runway_status") :
           \A j \in ReturnsOf("check_runway_status") : i <= j].val

\* C23: when runway 04 is the arrivals runway and the flight-feed request
\* fails (an exception or a non-200 status), get_runway_04_flights returns
\* None, get_display_data returns NO_FLIGHTS carrying the current
\* RunwayStatus, and the runway cache and the weather cache are as the runway
\* check left them.
FailedFeedMeansNoFlights ==
  (ev.op = "get_display_data" /\ FetchFailed("flights")) =>
    /\ CurrentRunwayStatus.runway_04_active
    /\ \A i \in ReturnsOf("get_runway_04_flights") : ev.log[i].val = None
    /\ ev.ret.type = "no_flights"
    /\ ev.ret.runway_status = CurrentRunwayStatus
    /\ flight_logic.cached_runway_status = Some(CurrentRunwayStatus)
    /\ flight_logic.last_runway_check =
         IF Fetched("atis") THEN ev.t ELSE ev.before.last_runway_check
    /\ ~Fetched("atis") =>
         flight_logic.cached_runway_status = ev.before.cached_runway_status
    /\ flight_logic.cached_weather_data = ev.before.cached_weather_data
    /\ flight_logic.last_weather_refresh = ev.before.last_weather_refresh

\* C23 witness: the feed answers with a non-200 status while a weather
\* snapshot is cached and runway 04 has just become the arrivals runway.
FeedStatusFailureWithCaches ==
  /\ ev.op = "get_display_data"
  /\ \E i \in FetchesOf(ev.log, "flights") : ev.log[i].kind = "status"
  /\ ev.before.cached_weather_data # None
  /\ ev.before.cached_runway_status # None
  /\ ev.ret.type = "no_flights"

\* The RunwayStatus that check_runway_status returned to the get_display_data
\* call of the pass just carried out.
DisplayCallAt == CHOOSE i \in CallsOf(ev.log, "get_display_data") : TRUE
StatusOfDisplayCall == RunwayReturnAt(ev.log, DisplayCallAt + 1)

\* C24: in a pass of the loop in which the runway-advisory fetch failed,
\* get_display_data is still called once, it still calls the flight finder
\* when the RunwayStatus it got has runway_04_active true and the weather
\* monitor otherwise, and it still returns an intent.
AdvisoryFailureStillRunsMonitors ==
  (ev.op = "run" /\ FetchFailed("atis")) =>
    /\ Cardinality(CallsOf(ev.log, "get_display_data")) = 1
    /\ IF StatusOfDisplayCall.runway_04_active
       THEN \E i \in CallsOf(ev.log, "get_runway_04_flights") : i > DisplayCallAt
       ELSE \E i \in CallsOf(ev.log, "get_weather_display") : i > DisplayCallAt
    /\ \E i \in ReturnsOf("get_display_data") :
         /\ i > DisplayCallAt
         /\ ev.log[i].val = ev.ret
    /\ ev.ret.type \in {"flight", "no_flights", "weather"}

\* C24 witness: runway 04 was the cached arrivals runway, the forced refresh
\* of the pass fails, and the weather monitor runs in the same pass.
WeatherRunsAfterAdvisoryFailure ==
  /\ ev.op = "run"
  /\ FetchFailed("atis")
  /\ ev.before.cached_runway_status # None
  /\ ev.before.cached_runway_status[1].runway_04_active
  /\ \E i \in CallsOf(ev.log, "get_weather_display") : i > DisplayCallAt
  /\ Fetched("metar")
  /\ ev.ret.type = "weather"

\* C25: a failed runway-advisory fetch does not count as a fresh result: the
\* pass in which it fails goes on with the status cached before it (or the
\* inactive default when nothing was cached), and the pass after it attempts
\* the advisory fetch again.
FailedAdvisoryRetriedNextPass ==
  [][(ev.op = "run" /\ FetchFailed("atis")) =>
       /\ StatusOfDisplayCall.runway_04_active =
            IF ev.before.cached_runway_status # None
            THEN ev.before.cached_runway_status[1].runway_04_active
            ELSE FALSE
       /\ FetchesOf(ev'.log, "atis") # {}]_vars

\* C26: the weather cache is written only by a fetch of get_weather_display
\* and the runway cache only by check_runway_status: after get_display_data
\* the cached WeatherSnapshot is the dict the fetch of get_weather_display
\* built, or, without a fetch, the one cached before, with no field added,
\* removed or altered; and without an advisory fetch the runway cache is the
\* one cached before.
CachesWrittenOnlyByTheirMonitor ==
  ev.op = "get_display_data" =>
    /\ IF Fetched("metar")
       THEN \A i \in ReturnsOf("get_weather_display") :
              flight_logic.cached_weather_data = Some(ev.log[i].val)
       ELSE flight_logic.cached_weather_data = ev.before.cached_weather_data
    /\ ~Fetched("metar") =>
         flight_logic.last_weather_refresh = ev.before.last_weather_refresh
    /\ ~Fetched("atis") =>
         /\ flight_logic.cached_runway_status = ev.before.cached_runway_status
         /\ flight_logic.last_runway_check = ev.before.last_runway_check

\* The returns of check_runway_status in the operation just carried out, in
\* order, and the dict the runway cache referred to before the k-th of them.
IsRunwayReturn(e) == IsReturn(e, "check_runway_status")
RunwayReturns == SelectSeq(ev.log, IsRunwayReturn)
CachedBeforeReturn(k) ==
  IF k = 1 THEN ev.before.cached_runway_status
  ELSE Some(RunwayReturns[k - 1].val)

\* C27: a RunwayStatus that check_runway_status has returned is not modified
\* afterwards: each later call of check_runway_status, made directly or by
\* get_display_data and get_weather_display, leaves the dict that was cached
\* when it began with the fields it had, and a refresh puts a new dict in the
\* cache.
ReturnedStatusNeverModified ==
  ev.op = "get_display_data" =>
    /\ \A k \in 1..Len(RunwayReturns) :
         RunwayReturns[k].old = CachedBeforeReturn(k)
    /\ flight_logic.cached_runway_status =
         Some(RunwayReturns[Len(RunwayReturns)].val)

\* C27 witness: a refresh replaces a cached status by one with other fields,
\* and the dict cached before still reads as it did.
RefreshInstalledNewStatus ==
  /\ ev.op = "get_display_data"
  /\ FetchSucceeded("atis")
  /\ ev.before.cached_runway_status # None
  /\ RunwayReturns[1].old = ev.before.cached_runway_status
  /\ RunwayReturns[1].val.arrivals # ev.before.cached_runway_status[1].arrivals
  /\ flight_logic.cached_runway_status = Some(RunwayReturns[1].val)

\* The show_* call that belongs to an intent type.
ShowCallFor(type) ==
  IF type = "flight" THEN "show_flight_info"
  ELSE IF type = "no_flights" THEN "show_no_flights_message"
  ELSE "show_weather_info"

\* C28: a pass of the loop makes at most one show_* call, and the one it
\* makes is show_flight_info for FLIGHT, show_no_flights_message for
\* NO_FLIGHTS and show_weather_info for WEATHER.
AtMostOneMatchingShowCall ==
  ev.op = "run" =>
    /\ Cardinality(ShowCalls) <= 1
    /\ \A i \in ShowCalls : ev.log[i].fn = ShowCallFor(ev.ret.type)

\* C28 witness: a pass whose intent is NO_FLIGHTS draws the no-flights
\* message after a pass that left the display in another mode.
NoFlightsMessageShown ==
  /\ ev.op = "run"
  /\ ev.ret.type = "no_flights"
  /\ ev.app_before.current_display_mode \in {Some("flight"), Some("weather")}
  /\ \E i \in ShowCalls : ev.log[i].fn = "show_no_flights_message"
  /\ Cardinality(ShowCalls) = 1

\* C29: a pass of the loop requests the flight feed at most once, and a pass
\* whose RunwayStatus has runway_04_active false does not request it and
\* yields WEATHER.
FeedAskedOnlyWhenRunway04Active ==
  ev.op = "run" =>
    /\ Cardinality(FetchesOf(ev.log, "flights")) <= 1
    /\ Cardinality(CallsOf(ev.log, "get_runway_04_flights")) <= 1
    /\ ~StatusOfDisplayCall.runway_04_active =>
         /\ FetchesOf(ev.log, "flights") = {}
         /\ CallsOf(ev.log, "get_runway_04_flights") = {}
         /\ ev.ret.type = "weather"

\* C29 witness: the advisory names runway 22 for arrivals, and the pass ends
\* with WEATHER without a request to the flight feed.
Runway22PassWithoutFeed ==
  /\ ev.op = "run"
  /\ FetchSucceeded("atis")
  /\ ~StatusOfDisplayCall.runway_04_active
  /\ StatusOfDisplayCall.arrivals = Some(<<"2", "2">>)
  /\ FetchesOf(ev.log, "flights") = {}
  /\ ev.ret.type = "weather"

\* C30: in every WEATHER intent that get_display_data returns, the
\* snapshot's arrivals and departures runways are those of the RunwayStatus
\* the same intent carries, also when a runway refresh changed the arrivals
\* runway while the cached snapshot was younger than 300 s.
WeatherRunwaysMatchStatus ==
  (ev.op \in {"run", "get_display_data"} /\ ev.ret.type = "weather") =>
    /\ ev.ret.runway_status # None
    /\ ev.ret.arrivals_runway = ev.ret.runway_status[1].arrivals
    /\ ev.ret.departures_runway = ev.ret.runway_status[1].departures

\* A pass started since the advisory source settled.
PassSinceSettled == ev.op = "run" /\ ev.t >= upstream.since

\* C31: once the advisory source keeps naming runway 04 (with or without a
\* suffix) as the landing runway, the loop reaches a pass whose intent is
\* FLIGHT or NO_FLIGHTS; once it keeps naming another landing runway, the
\* loop reaches a pass whose intent is WEATHER and which draws the weather
\* display unless the display already is in weather mode.
SettledRunwayReachesItsIntent ==
  /\ (upstream.runway = "04") ~>
       (PassSinceSettled /\ ev.ret.type \in {"flight", "no_flights"})
  /\ (upstream.runway = "other") ~>
       /\ PassSinceSettled
       /\ ev.ret.type = "weather"
       /\ \/ \E i \in ShowCalls : ev.log[i].fn = "show_weather_info"
          \/ ev.app_before.current_display_mode = Some("weather")

\* C31 witness: the source settled on runway 04 while the display was in
\* weather mode, and a later pass yields FLIGHT.
SettledOn04LeavesWeather ==
  /\ upstream.runway = "04"
  /\ PassSinceSettled
  /\ ev.t > upstream.since
  /\ ev.app_before.current_display_mode = Some("weather")
  /\ ev.ret.type = "flight"

\* The weather report and the arrivals runway of the cached snapshot, and
\* those of the weather display the renderer was last given.
SnapshotValues(w) == [metar |-> w.metar, arrivals |-> w.arrivals_runway]
WeatherValues ==
  {SnapshotValues(AtisWeather) :
     AtisWeather \in [metar : {Some(MetarResponses[m].rawOb) : m \in LiveMetar},
                      arrivals_runway : {None, Some(<<"2", "2">>)}]}
InWeatherMode == app.current_display_mode = Some("weather")
WeatherPending(v) ==
  /\ InWeatherMode
  /\ now < StartTime + LiveHorizon
  /\ flight_logic.cached_weather_data # None
  /\ SnapshotValues(flight_logic.cached_weather_data[1]) = v
  /\ \/ shown = None
     \/ shown[1].raised
     \/ shown[1].fn # "show_weather_info"
     \/ SnapshotValues(shown[1].arg) # v
WeatherShown(v) ==
  /\ shown # None
  /\ ~shown[1].raised
  /\ shown[1].fn = "show_weather_info"
  /\ SnapshotValues(shown[1].arg) = v

FlightIdIffFlightMode ==
  (app.last_flight_id # None) <=> (app.current_display_mode = Some("flight"))

\* C33 witness: a redraw to the no-flights message or to weather has reset
\* the flight id that the pass found set.
FlightIdResetByRedraw ==
  /\ ev.op = "run"
  /\ ev.app_before.last_flight_id # None
  /\ ev.app_before.current_display_mode = Some("flight")
  /\ app.current_display_mode \in {Some("no_flights"), Some("weather")}
  /\ app.last_flight_id = None

\* The pass just carried out and the one before it have the same intent: the
\* same type and, for FLIGHT, the same flight.
SameIntentAgain ==
  /\ ev.op = "run"
  /\ ev'.ret.type = ev.ret.type
  /\ ev.ret.type = "flight" => ev'.ret.flight_id = ev.ret.flight_id

\* C34: after a pass that completes without an error current_display_mode is
\* the type of the pass's intent and the last show_* call made is the one of
\* that type; a pass in which a renderer call raises leaves
\* current_display_mode and last_flight_id as they were, and a following pass
\* with the same intent makes the show_* call again.
ModeFollowsIntentAndDisplay ==
  [][/\ ~ev'.raised =>
          /\ app'.current_display_mode = Some(ev'.ret.type)
          /\ shown' # None
          /\ shown'[1].fn = ShowCallFor(ev'.ret.type)
     /\ ev'.raised =>
          /\ app'.current_display_mode = app.current_display_mode
          /\ app'.last_flight_id = app.last_flight_id
     /\ (ev.raised /\ SameIntentAgain) =>
          \E i \in Drawn(ev'.log) : ev'.log[i].fn = ShowCallFor(ev.ret.type)]_vars

\* C34 witness: a pass whose show_* call raised follows a pass whose call
\* raised too, and the mode and the flight id are still the ones before it.
RedrawRepeatedAfterError ==
  /\ ev.op = "run"
  /\ ev.raised
  /\ ev.t > StartTime
  /\ \E i \in ShowCalls : ev.log[i].raised
  /\ app.current_display_mode = ev.app_before.current_display_mode
  /\ app.last_flight_id = ev.app_before.last_flight_id

\* C35: a pass of the loop fetches the weather report at most once.
WeatherFetchedOncePerPass ==
  ev.op = "run" => Cardinality(FetchesOf(ev.log, "metar")) <= 1

\* ------------------------------------------------------------------- C36
\* The check_runway_status calls of a pass, as positions of its log.
RunwayCallsOf(log) ==
  {i \in 1..Len(log) : log[i].ev = "call" /\ log[i].fn = "check_runway_status"}

\* The pass began with the loop's forced check (lines 63-66).
PassForcedCheck(log) ==
  /\ Len(log) > 0
  /\ log[1].ev = "call"
  /\ log[1].fn = "check_runway_status"
  /\ log[1].force

\* C36: a pass of the loop fetches the runway advisory at most once, and when
\* the pass begins with the loop's forced check, that check makes the fetch:
\* every later runway check of the pass is answered from the cache.
AdvisoryFetchedOncePerPass ==
  ev.op = "run" =>
    /\ Cardinality(FetchesOf(ev.log, "atis")) <= 1
    /\ PassForcedCheck(ev.log) => FetchesOf(ev.log, "atis") = {2}

\* A pass that forced the check and then made the runway checks of
\* get_display_data and of get_weather_display, with a single advisory fetch.
ForcedPassServedFromCache ==
  /\ ev.op = "run"
  /\ PassForcedCheck(ev.log)
  /\ ev.ret.type = "weather"
  /\ Cardinality(RunwayCallsOf(ev.log)) >= 3
  /\ FetchesOf(ev.log, "metar") # {}
  /\ FetchesOf(ev.log, "atis") = {2}

\* ------------------------------------------------------------------- C37
\* The feed_watchdog calls among the events of log.
FeedsOf(log) == {i \in 1..Len(log) : log[i].ev = "feed_watchdog"}

\* The seconds the event e takes: a sleep its length, a fetch the time the
\* request blocked.
SecondsOf(e) ==
  IF e.ev = "sleep" THEN e.secs
  ELSE IF e.ev = "fetch" THEN e.resp.dur
  ELSE 0

\* The seconds taken by the events i..j of log.
RECURSIVE SecondsBetween(_, _, _)
SecondsBetween(log, i, j) ==
  IF i > j THEN 0
  ELSE SecondsOf(log[i]) + Only({ SecondsBetween(log, k, j) : k \in {i + 1} })

\* From the last feed_watchdog call of a pass to the end of the pass.
SecondsAfterLastFeed(log) ==
  Only({ SecondsBetween(log, last + 1, Len(log)) :
         last \in {CHOOSE i \in FeedsOf(log) : \A k \in FeedsOf(log) : k <= i} })

\* From the start of a pass to its first feed_watchdog call.
SecondsBeforeFirstFeed(log) ==
  Only({ SecondsBetween(log, 1, first - 1) :
         first \in {Least(FeedsOf(log))} })

\* C37: on the board with the watchdog, from the last feed_watchdog call of
\* one pass's sleep to the first feed_watchdog call of the next pass no more
\* than WATCHDOG_TIMEOUT seconds go by.
WatchdogFedInTime ==
  [][(/\ display_controller.watchdog
      /\ ev.op = "run" /\ ev'.op = "run"
      /\ FeedsOf(ev.log) # {} /\ FeedsOf(ev'.log) # {})
     => SecondsAfterLastFeed(ev.log) + SecondsBeforeFirstFeed(ev'.log)
          <= WATCHDOG_TIMEOUT]_vars

====
